---------------------------- MODULE Spec2Model ----------------------------
(***************************************************************************)
(* pocket-ledger: the bank-statement import (BankStatementImport.tsx) and  *)
(* the reporting views (ExpenseChart, MonthlyTrends, Dashboard).           *)
(*                                                                         *)
(* Strings are TLA+ strings, read character by character with SubSeq.      *)
(* A JavaScript number is a decimal m / 10^e (or NaN); a time value is in  *)
(* minutes since the epoch (TLC integers are 32 bits wide, milliseconds    *)
(* would overflow; no date of the model depends on seconds).               *)
(***************************************************************************)
EXTENDS Integers, Sequences, FiniteSets, TLC

VARIABLES
    tz,           \* the local time zone, by its name (the environment)
    statement,    \* the rows of the bank statement the user has (the environment)
    file,         \* useState<File | null>: the selected file
    importing,    \* useState(false)
    parsedData,   \* useState<ParsedTransaction[]>([])
    reading,      \* the file a pending FileReader.readAsArrayBuffer is reading
    inserting,    \* importTransactions is between its setImporting(true) and its finally
    toast,        \* the title of the last toast shown
    pushedFrom,   \* parseExcelFile: the row index of each transaction it pushed
    parseResult,  \* parseExcelFile: how its promise settled
    now,          \* the time of the computation, minutes since the epoch (the environment)
    transactions, \* the user's rows of public.transactions
    accounts,     \* the user's rows of public.accounts
    expenseData,  \* ExpenseChart: useState<ExpenseData[]>([])
    expenseLoading, \* ExpenseChart: useState(true)
    expenseFetch, \* ExpenseChart: how the last fetch ended
    monthlyData,  \* MonthlyTrends: useState<MonthlyData[]>([])
    monthlyLoading, \* MonthlyTrends: useState(true)
    monthlyFetch, \* MonthlyTrends: how the last Promise.all of fetches ended
    stats,        \* Dashboard: useState<DashboardStats>
    loading,      \* Dashboard: useState(true)
    statsFetch,   \* Dashboard: how the last two fetches ended
    statsLoads,   \* Dashboard: the calls of loadDashboardData awaiting their fetches
    formData,     \* AddTransactionDialog: useState of the form's fields
    dialogAccounts,   \* AddTransactionDialog: useState<Account[]>([])
    dialogCategories, \* AddTransactionDialog: useState<Category[]>([])
    submitting,   \* AddTransactionDialog: the rows of the insert handleSubmit awaits
    calls,        \* Dashboard: the calls of loadDashboardData in the order they started,
                  \* each with how far it is and what it has fetched
    workbook      \* ExcelExport: the sheets of the workbook last written

importVars ==
    <<file, importing, parsedData, reading, inserting, toast, pushedFrom, parseResult>>
envVars == <<tz, statement, now>>
storeVars == <<transactions, accounts>>
expenseVars == <<expenseData, expenseLoading, expenseFetch>>
monthlyVars == <<monthlyData, monthlyLoading, monthlyFetch>>
dashboardVars == <<stats, loading, statsFetch, statsLoads>>
dialogVars == <<formData, dialogAccounts, dialogCategories, submitting>>
callVars == <<calls>>
exportVars == <<workbook>>
vars ==
    <<envVars, importVars, storeVars, expenseVars, monthlyVars, dashboardVars, dialogVars,
      callVars, exportVars>>

---------------------------------------------------------------------------
(* Bounds                                                                  *)

MaxRows == 2
MaxTransactions == 3
MaxCalls == 2

---------------------------------------------------------------------------
(* Characters and strings                                                  *)

Ch(s, i) == SubSeq(s, i, i)

DigitChars == "0123456789"

\* the value of each decimal digit character
DigitValues == [c \in { Ch(DigitChars, d + 1) : d \in 0..9 } |->
                   CHOOSE d \in 0..9 : Ch(DigitChars, d + 1) = c]

IsDigit(c) == c \in DOMAIN DigitValues

DigitVal(c) == DigitValues[c]

\* s.endsWith(suffix)
EndsWith(s, suffix) ==
    /\ Len(suffix) <= Len(s)
    /\ SubSeq(s, Len(s) - Len(suffix) + 1, Len(s)) = suffix

RECURSIVE StripFrom(_, _)
StripFrom(s, i) ==
    IF i > Len(s) THEN ""
    ELSE LET c == Ch(s, i)
         IN  (IF IsDigit(c) \/ c = "." \/ c = "-" THEN c ELSE "") \o StripFrom(s, i + 1)

\* s.replace(/[^\d.-]/g, '')
StripNonNumeric(s) == StripFrom(s, 1)

\* the index one past the run of digits of s that starts at i
RECURSIVE DigitsEnd(_, _)
DigitsEnd(s, i) ==
    IF i <= Len(s) /\ IsDigit(Ch(s, i)) THEN DigitsEnd(s, i + 1) ELSE i

\* the value of the digits s[a .. b-1], read after the digits worth acc
RECURSIVE DigitsValue(_, _, _, _)
DigitsValue(s, a, b, acc) ==
    IF a >= b THEN acc ELSE DigitsValue(s, a + 1, b, acc * 10 + DigitVal(Ch(s, a)))

RECURSIVE SkipSpaces(_, _)
SkipSpaces(s, i) ==
    IF i <= Len(s) /\ Ch(s, i) = " " THEN SkipSpaces(s, i + 1) ELSE i

RECURSIVE NatToString(_)
NatToString(n) ==
    IF n < 10 THEN Ch(DigitChars, n + 1)
    ELSE NatToString(n \div 10) \o Ch(DigitChars, (n % 10) + 1)

\* the decimal digits of n, padded with zeros on the left to width w
RECURSIVE PadStart(_, _)
PadStart(s, w) == IF Len(s) >= w THEN s ELSE PadStart("0" \o s, w)

---------------------------------------------------------------------------
(* Numbers: m / 10^e in lowest terms of ten, or NaN                        *)

NaN == [nan |-> TRUE, m |-> 0, e |-> 0]

RECURSIVE Num(_, _)
Num(m, e) ==
    IF e > 0 /\ m % 10 = 0 THEN Num(m \div 10, e - 1)
    ELSE [nan |-> FALSE, m |-> m, e |-> e]

\* x > 0, false for NaN
GreaterThanZero(x) == ~x.nan /\ x.m > 0

\* Math.abs
MathAbs(x) == IF x.nan THEN NaN ELSE Num(IF x.m < 0 THEN -x.m ELSE x.m, x.e)

\* parseFloat(s): leading white space, a sign, digits, a point, digits; the
\* longest such prefix is the value, and NaN when it holds no digit.  (No
\* cell of the model holds an exponent or "Infinity".)
ParseFloat(s) ==
    LET i0   == SkipSpaces(s, 1)
        neg  == i0 <= Len(s) /\ Ch(s, i0) = "-"
        i1   == IF i0 <= Len(s) /\ (Ch(s, i0) = "-" \/ Ch(s, i0) = "+") THEN i0 + 1 ELSE i0
        i2   == DigitsEnd(s, i1)
        dot  == i2 <= Len(s) /\ Ch(s, i2) = "."
        i3   == IF dot THEN DigitsEnd(s, i2 + 1) ELSE i2
        nInt == i2 - i1
        nFra == IF dot THEN i3 - (i2 + 1) ELSE 0
        mag  == DigitsValue(s, i2 + 1, i3, DigitsValue(s, i1, i2, 0))
    IN  IF nInt + nFra = 0 THEN NaN
        ELSE Num(IF neg THEN -mag ELSE mag, nFra)

---------------------------------------------------------------------------
(* Dates: the proleptic Gregorian calendar of ECMAScript's Date            *)

MinutesPerDay == 24 * 60

\* MakeDay: the day number (days since 1970-01-01) of the civil date y-m-d;
\* a day past the month's end runs on into the next month, as in MakeDay
DaysFromCivil(y, m, d) ==
    LET yy  == IF m <= 2 THEN y - 1 ELSE y
        era == yy \div 400
        yoe == yy - era * 400
        mp  == IF m > 2 THEN m - 3 ELSE m + 9
        doy == ((153 * mp + 2) \div 5) + d - 1
        doe == yoe * 365 + (yoe \div 4) - (yoe \div 100) + doy
    IN  era * 146097 + doe - 719468

\* YearFromTime, MonthFromTime, DateFromTime: the civil date of a day number
CivilFromDays(z) ==
    LET zz  == z + 719468
        era == zz \div 146097
        doe == zz - era * 146097
        yoe == (doe - (doe \div 1460) + (doe \div 36524) - (doe \div 146096)) \div 365
        doy == doe - (365 * yoe + (yoe \div 4) - (yoe \div 100))
        mp  == (5 * doy + 2) \div 153
        d   == doy - ((153 * mp + 2) \div 5) + 1
        m   == IF mp < 10 THEN mp + 3 ELSE mp - 9
        y   == yoe + era * 400 + (IF m <= 2 THEN 1 ELSE 0)
    IN  [y |-> y, m |-> m, d |-> d]

InvalidDate == [valid |-> FALSE, t |-> 0]

\* a Date holding the time value t (minutes since the epoch, UTC)
DateOf(t) == [valid |-> TRUE, t |-> t]

\* the zones of the model: three that keep one offset all year, and one
\* that observes summer time (daylight saving)
TimeZones == {"America/Bogota", "UTC", "Asia/Kolkata"}
DaylightZones == {"Europe/London"}

\* the offset of a zone in standard time, in minutes east of UTC
StandardOffset(zone) ==
    CASE zone = "America/Bogota" -> -300
      [] zone = "UTC"            -> 0
      [] zone = "Asia/Kolkata"   -> 330
      [] zone = "Europe/London"  -> 0

\* LocalTZA(t, true): the offset of the zone at the UTC time t.  Summer
\* time is an hour ahead, from 01:00 UTC on the last Sunday of March to
\* 01:00 UTC on the last Sunday of October (day 0 was a Thursday).
UtcOffset(zone, t) ==
    IF zone \notin DaylightZones THEN StandardOffset(zone)
    ELSE LET y       == CivilFromDays(t \div MinutesPerDay).y
             march   == DaysFromCivil(y, 3, 31)
             october == DaysFromCivil(y, 10, 31)
             from    == (march - ((march + 4) % 7)) * MinutesPerDay + 60
             to      == (october - ((october + 4) % 7)) * MinutesPerDay + 60
         IN  StandardOffset(zone) + (IF from <= t /\ t < to THEN 60 ELSE 0)

\* UTC(t): the UTC time of the local time `local` (a local midnight, which
\* no change of offset skips or repeats)
UtcOfLocal(local, zone) == local - UtcOffset(zone, local - StandardOffset(zone))

\* new Date(year, monthIndex, day): LOCAL midnight of that civil date; a
\* month index outside 0..11 and a day of 0 carry into the neighbouring
\* year and month (MakeDay), monthIndex counting from 0
NewDateLocal(year, monthIndex, day, zone) ==
    LET y == year + (monthIndex \div 12)
        m == (monthIndex % 12) + 1
    IN  DateOf(UtcOfLocal((DaysFromCivil(y, m, 1) + day - 1) * MinutesPerDay, zone))

AllDigits(s, a, b) == \A i \in a..b : IsDigit(Ch(s, i))

\* Date.parse(s).  "YYYY-MM-DD" is the ISO date-only form: UTC midnight.
\* "MM/DD/YYYY" is the legacy form every engine reads month first: LOCAL
\* midnight.  Anything else, and a month outside 1..12 or a day outside
\* 1..31, is an invalid date.
ParseDateString(s, zone) ==
    IF Len(s) = 10 /\ Ch(s, 5) = "-" /\ Ch(s, 8) = "-"
       /\ AllDigits(s, 1, 4) /\ AllDigits(s, 6, 7) /\ AllDigits(s, 9, 10)
    THEN LET y == DigitsValue(s, 1, 5, 0)
             m == DigitsValue(s, 6, 8, 0)
             d == DigitsValue(s, 9, 11, 0)
         IN  IF m \in 1..12 /\ d \in 1..31
             THEN DateOf(DaysFromCivil(y, m, d) * MinutesPerDay)
             ELSE InvalidDate
    ELSE IF Len(s) = 10 /\ Ch(s, 3) = "/" /\ Ch(s, 6) = "/"
            /\ AllDigits(s, 1, 2) /\ AllDigits(s, 4, 5) /\ AllDigits(s, 7, 10)
    THEN LET m == DigitsValue(s, 1, 3, 0)
             d == DigitsValue(s, 4, 6, 0)
             y == DigitsValue(s, 7, 11, 0)
         IN  IF m \in 1..12 /\ d \in 1..31
             THEN DateOf(UtcOfLocal(DaysFromCivil(y, m, d) * MinutesPerDay, zone))
             ELSE InvalidDate
    ELSE InvalidDate

\* date.toISOString().split('T')[0]: the UTC calendar date, "YYYY-MM-DD"
\* (toISOString throws a RangeError on an invalid date: the callers test)
ToISODate(date) ==
    LET c == CivilFromDays(date.t \div MinutesPerDay)
    IN  PadStart(NatToString(c.y), 4) \o "-" \o PadStart(NatToString(c.m), 2)
            \o "-" \o PadStart(NatToString(c.d), 2)

\* getFullYear(), getMonth() (from 0): the LOCAL calendar date of a Date
LocalCivil(date, zone) ==
    CivilFromDays((date.t + UtcOffset(zone, date.t)) \div MinutesPerDay)

---------------------------------------------------------------------------
(* Spreadsheet cells and rows (the objects XLSX.utils.sheet_to_json makes) *)

Undefined == [t |-> "undefined", s |-> "", n |-> 0]

Str(s) == [t |-> "string", s |-> s, n |-> 0]

\* a numeric cell holding the integer n
Number(n) == [t |-> "number", s |-> "", n |-> n]

\* row.key, undefined when the row has no such column
Prop(row, key) == IF key \in DOMAIN row THEN row[key] ELSE Undefined

\* JavaScript truthiness: undefined, "" and 0 are falsy
Truthy(c) ==
    CASE c.t = "undefined" -> FALSE
      [] c.t = "string"    -> c.s # ""
      [] c.t = "number"    -> c.n # 0

\* a || b
Or(a, b) == IF Truthy(a) THEN a ELSE b

\* c.toString() of a string or a number
CellToString(c) ==
    IF c.t = "string" THEN c.s
    ELSE IF c.n < 0 THEN "-" \o NatToString(-c.n) ELSE NatToString(c.n)

\* new Date(c): a number is a time value in milliseconds
NewDate(c, zone) ==
    IF c.t = "number" THEN DateOf(c.n \div 60000) ELSE ParseDateString(c.s, zone)

---------------------------------------------------------------------------
(* parseExcelFile: the normalization of the decoded rows                   *)

DateKeys == <<"Date", "date", "DATE", "Transaction Date", "transaction_date">>
DescKeys == <<"Description", "description", "DESCRIPTION", "Narration", "narration">>
AmountKeys == <<"Amount", "amount", "AMOUNT">>
DebitKeys == <<"Debit", "debit", "DEBIT">>
CreditKeys == <<"Credit", "credit", "CREDIT">>

\* row[keys[i]] || row[keys[i+1]] || ... || row[keys[Len(keys)]]
RECURSIVE Probe(_, _, _)
Probe(row, keys, i) ==
    IF i = Len(keys) THEN Prop(row, keys[i])
    ELSE Or(Prop(row, keys[i]), Probe(row, keys, i + 1))

DateValue(row) == Probe(row, DateKeys, 1)
DescValue(row) == Probe(row, DescKeys, 1)
AmountValue(row) == Probe(row, AmountKeys, 1)
DebitValue(row) == Probe(row, DebitKeys, 1)
CreditValue(row) == Probe(row, CreditKeys, 1)
\* HasDateAndDescription without the test of the description
HasDateOnly(row) == Truthy(DateValue(row))

\* if (dateValue && descValue)
HasDateAndDescription(row) == Truthy(DateValue(row)) /\ Truthy(DescValue(row))

\* the single-amount branch: Math.abs(parseFloat(stripped)), and the sign of
\* parseFloat of the cell's text AS IT IS, not of the stripped text
SingleAmount(amountValue) ==
    [amount |-> MathAbs(ParseFloat(StripNonNumeric(CellToString(amountValue)))),
     type   |-> IF GreaterThanZero(ParseFloat(CellToString(amountValue)))
                THEN "income" ELSE "expense"]
\* DebitCredit with the credit column tried first
DebitCreditCreditFirst(debitValue, creditValue) ==
    IF Truthy(creditValue) /\ GreaterThanZero(ParseFloat(CellToString(creditValue)))
    THEN [amount |-> ParseFloat(CellToString(creditValue)), type |-> "income"]
    ELSE IF Truthy(debitValue) /\ GreaterThanZero(ParseFloat(CellToString(debitValue)))
    THEN [amount |-> ParseFloat(CellToString(debitValue)), type |-> "expense"]
    ELSE [amount |-> Num(0, 0), type |-> "expense"]

\* the debit/credit branch: debit first, then credit; (0, expense) when
\* neither is truthy and positive
DebitCredit(debitValue, creditValue) ==
    IF Truthy(debitValue) /\ GreaterThanZero(ParseFloat(CellToString(debitValue)))
    THEN [amount |-> ParseFloat(CellToString(debitValue)), type |-> "expense"]
    ELSE IF Truthy(creditValue) /\ GreaterThanZero(ParseFloat(CellToString(creditValue)))
    THEN [amount |-> ParseFloat(CellToString(creditValue)), type |-> "income"]
    ELSE [amount |-> Num(0, 0), type |-> "expense"]

\* let amount = 0; let type = 'expense'; if (amountValue) ... else if
\* (debitValue || creditValue) ...
AmountAndType(row) ==
    IF Truthy(AmountValue(row)) THEN SingleAmount(AmountValue(row))
    ELSE IF Truthy(DebitValue(row)) \/ Truthy(CreditValue(row))
    THEN DebitCredit(DebitValue(row), CreditValue(row))
    ELSE [amount |-> Num(0, 0), type |-> "expense"]
\* IsPushed with amount >= 0 for amount > 0
IsPushedNonNegative(amount) == ~amount.nan /\ amount.m >= 0

\* if (amount > 0)
IsPushed(amount) == GreaterThanZero(amount)

\* One call of the forEach callback: "skip" (nothing pushed), "push" (tx is
\* pushed) or "throw" (toISOString of an invalid date throws a RangeError).
NormalizeRow(row, zone) ==
    LET at   == AmountAndType(row)
        date == NewDate(DateValue(row), zone)
        none == [date |-> "", description |-> "", amount |-> NaN, type |-> "expense"]
    IN  IF ~HasDateAndDescription(row) THEN [kind |-> "skip", tx |-> none]
        ELSE IF ~IsPushed(at.amount) THEN [kind |-> "skip", tx |-> none]
        ELSE IF ~date.valid THEN [kind |-> "throw", tx |-> none]
        ELSE [kind |-> "push",
              tx   |-> [date        |-> ToISODate(date),
                        description |-> CellToString(DescValue(row)),
                        amount      |-> at.amount,
                        type        |-> at.type]]

\* jsonData.forEach from row i on, with the transactions pushed so far: the
\* loop ends at the last row, or at the first callback that throws
RECURSIVE ForEachRow(_, _, _, _, _)
ForEachRow(rows, i, zone, pushed, from) ==
    IF i > Len(rows)
    THEN [threw |-> FALSE, transactions |-> pushed, from |-> from]
    ELSE LET r == NormalizeRow(rows[i], zone)
         IN  CASE r.kind = "throw" ->
                    [threw |-> TRUE, transactions |-> pushed, from |-> from]
               [] r.kind = "push"  ->
                    ForEachRow(rows, i + 1, zone, Append(pushed, r.tx), Append(from, i))
               [] r.kind = "skip"  ->
                    ForEachRow(rows, i + 1, zone, pushed, from)

\* a reader.onload whose array is the component's parsedData, kept between
\* calls
ParseRowsOntoParsedData(rows, zone) == ForEachRow(rows, 1, zone, parsedData, pushedFrom)

\* the body of reader.onload on the decoded rows: resolve(transactions), or
\* reject(error) from the catch; `transactions` is a new array in each call
ParseRows(rows, zone) == ForEachRow(rows, 1, zone, <<>>, <<>>)

---------------------------------------------------------------------------
(* The inputs: time zones, rows, files                                     *)

\* the date and description columns of a row that has both: a month-first
\* date, an ISO date, and a day-first date whose day is no month
DateDescColumns ==
    { [Date |-> Str("01/05/2024"), Description |-> Str("Coffee")],
      [date |-> Str("2024-05-02"), description |-> Str("Salary")],
      [Date |-> Str("31/05/2024"), Description |-> Str("Rent")] }

\* ... of a row that lacks the date, or the description
LackingColumns ==
    { [Description |-> Str("Coffee")],
      [Date |-> Str("01/05/2024")] }

NoColumns == [k \in {} |-> Undefined]

\* the amount, debit and credit columns of a row
AmountColumns ==
    { NoColumns,
      [Amount |-> Str("$100")],
      [Amount |-> Number(-50)],
      [Amount |-> Str("0")],
      [Debit |-> Str("150")],
      [Credit |-> Str("50000")],
      [Debit |-> Str("150"), Credit |-> Str("50000")],
      [Debit |-> Str("0"), Credit |-> Str("50000")] }

\* rows with a numeric cell of 0, which sheet_to_json gives as the number 0,
\* in the first key probed, and a second candidate after it
ZeroCellRows ==
    { [Date |-> Str("01/05/2024"), Description |-> Str("Coffee"),
       Amount |-> Number(0), Debit |-> Str("150")],
      [Date |-> Str("01/05/2024"), Description |-> Number(0), description |-> Str("Salary"),
       Credit |-> Str("50000")] }

Rows ==
    { dd @@ am : dd \in DateDescColumns, am \in AmountColumns }
        \cup { dd @@ am : dd \in LackingColumns, am \in {NoColumns, [Debit |-> Str("150")]} }
        \cup ZeroCellRows

RowSeqs == UNION { [1..n -> Rows] : n \in 0..MaxRows }

\* File objects: the user's statement, and a file whose name parseFile refuses
NoFile == [name |-> ""]
StatementFile == [name |-> "statement.xlsx"]
UnsupportedFile == [name |-> "statement.pdf"]

\* a second statement the user has, of one row
OtherFile == [name |-> "other.csv"]
OtherStatement ==
    <<[Date |-> Str("02/10/2024"), Description |-> Str("Books"), Amount |-> Str("-20")]>>

\* the file XLSX.writeFile writes at `time` in `zone`:
\* `transactions_export_${format(new Date(), 'yyyy-MM-dd')}.xlsx`
ExportedFile(time, zone) ==
    LET c == LocalCivil(DateOf(time), zone)
    IN  [name |-> "transactions_export_" \o PadStart(NatToString(c.y), 4) \o "-"
                     \o PadStart(NatToString(c.m), 2) \o "-"
                     \o PadStart(NatToString(c.d), 2) \o ".xlsx"]

\* XLSX.read and XLSX.utils.sheet_to_json of the first sheet: the rows of
\* f, those of its sheet Transactions for the workbook that was exported
SheetToJson(f) ==
    IF f = StatementFile THEN statement
    ELSE IF f = OtherFile THEN OtherStatement
    ELSE IF workbook # <<>> /\ f = ExportedFile(now, tz) THEN workbook[1].Transactions
    ELSE <<>>

NoToast == [title |-> "", description |-> ""]

---------------------------------------------------------------------------
(* BankStatementImport: the component                                      *)

\* an onChange that leaves the parsed transactions of the file selected
\* before
handleFileChangeKeepingParsedData(selectedFile) ==
    /\ ~importing
    /\ file' = selectedFile
    /\ UNCHANGED <<envVars, dialogVars, callVars, exportVars, importing, parsedData, reading,
                    inserting, toast, pushedFrom, parseResult, storeVars, expenseVars,
                    monthlyVars, dashboardVars>>

\* the file input's onChange (the input is disabled while importing)
handleFileChange(selectedFile) ==
    /\ ~importing
    /\ file' = selectedFile
    /\ parsedData' = <<>>
    /\ pushedFrom' = <<>>
    /\ parseResult' = "none"
    /\ UNCHANGED <<envVars, dialogVars, callVars, exportVars, importing, reading, inserting, toast, storeVars, expenseVars,
                    monthlyVars, dashboardVars>>

\* a test of the name that lets every file through
IsSupportedAnyName(name) == Len(name) > 0

\* file.name.endsWith('.xlsx') || ... '.xls' || ... '.csv'
IsSupported(name) ==
    EndsWith(name, ".xlsx") \/ EndsWith(name, ".xls") \/ EndsWith(name, ".csv")

\* the Parse File button (shown when a file is selected, disabled while
\* importing), up to the await of parseExcelFile; an unsupported name throws
\* before any await, so the catch and the finally run in the same step
parseFile ==
    /\ file # NoFile
    /\ ~importing
    /\ IF IsSupported(file.name)
       THEN /\ importing' = TRUE
            /\ reading' = file
            /\ UNCHANGED toast
       ELSE /\ toast' = [title |-> "Error parsing file",
                         description |-> "Unsupported file format. Please upload Excel (.xlsx, .xls) or CSV files."]
            /\ importing' = FALSE
            /\ UNCHANGED reading
    /\ UNCHANGED <<envVars, dialogVars, callVars, exportVars, file, parsedData, inserting, pushedFrom, parseResult, storeVars,
                    expenseVars, monthlyVars, dashboardVars>>

\* reader.onload, and the rest of parseFile after its await
readerOnload ==
    /\ reading # NoFile
    /\ \E r \in {ParseRows(SheetToJson(reading), tz)} :
           /\ pushedFrom' = r.from
           /\ IF r.threw
              THEN /\ parseResult' = "rejected"
                   /\ toast' = [title |-> "Error parsing file",
                                description |-> "Invalid time value"]
                   /\ UNCHANGED parsedData
              ELSE /\ parseResult' = "resolved"
                   /\ parsedData' = r.transactions
                   /\ toast' = [title |-> "File parsed successfully", description |-> ""]
    /\ importing' = FALSE
    /\ reading' = NoFile
    /\ UNCHANGED <<envVars, dialogVars, callVars, exportVars, file, inserting, storeVars, expenseVars, monthlyVars, dashboardVars>>

\* the read of the file fails (the file was moved or changed after it was
\* selected): the reader fires its error event.  parseExcelFile sets no
\* reader.onerror, so its promise is never settled and parseFile never
\* returns from its await.
readerOnerror ==
    /\ reading # NoFile
    /\ reading' = NoFile
    /\ parseResult' = "pending"
    /\ UNCHANGED <<envVars, dialogVars, callVars, exportVars, file, importing, parsedData,
                    inserting, toast, pushedFrom, storeVars, expenseVars, monthlyVars,
                    dashboardVars>>

ImportNext ==
    \/ \E f \in {StatementFile, UnsupportedFile} : handleFileChange(f)
    \/ parseFile
    \/ readerOnload

---------------------------------------------------------------------------
(* The store: public.transactions, public.categories, public.accounts      *)

\* category_id is null
NoCategory == ""

\* notes is null
NoNotes == ""

\* the signed-in user's id: user.id of useAuth()
User == "u1"

\* the user's categories, all of them active: id -> name, type, color.  No
\* constraint keeps the names of a user's categories distinct: c3 has the
\* name of c1.
Categories ==
    [id \in {"c1", "c2", "c3", "c4"} |->
        CASE id = "c1" -> [name |-> "A", type |-> "expense", color |-> "#ef4444"]
          [] id = "c2" -> [name |-> "B", type |-> "expense", color |-> "#3b82f6"]
          [] id = "c3" -> [name |-> "A", type |-> "expense", color |-> "#10b981"]
          [] id = "c4" -> [name |-> "Salary", type |-> "income", color |-> "#059669"]]

\* a DATE, which the tables hold as a day number, from its 'YYYY-MM-DD' text
DateOfText(s) ==
    DaysFromCivil(DigitsValue(s, 1, 5, 0), DigitsValue(s, 6, 8, 0), DigitsValue(s, 9, 11, 0))

\* .gte('date', firstDay).lte('date', lastDay): the rows of the table, in
\* the table's order, dated from firstDay to lastDay inclusive
RECURSIVE SelectBetween(_, _, _, _)
SelectBetween(table, i, first, last) ==
    IF i > Len(table) THEN <<>>
    ELSE (IF table[i].date >= first /\ table[i].date <= last
          THEN <<table[i]>> ELSE <<>>) \o SelectBetween(table, i + 1, first, last)

SelectDated(table, firstDay, lastDay) ==
    LET first == DateOfText(firstDay)
        last  == DateOfText(lastDay)
    IN  SelectBetween(table, 1, first, last)

\* .eq('type', type)
RECURSIVE SelectType(_, _, _)
SelectType(rows, i, type) ==
    IF i > Len(rows) THEN <<>>
    ELSE (IF rows[i].type = type THEN <<rows[i]>> ELSE <<>>) \o SelectType(rows, i + 1, type)

\* rows.reduce((sum, t) => sum + Number(t.amount), 0)
RECURSIVE SumAmounts(_, _)
SumAmounts(rows, i) ==
    IF i > Len(rows) THEN 0 ELSE rows[i].amount + SumAmounts(rows, i + 1)

\* const currentMonth = new Date(); firstDay = new Date(y, m, 1); lastDay =
\* new Date(y, m + 1, 0); each .toISOString().split('T')[0]
CurrentMonthWindow(time, zone) ==
    LET c == LocalCivil(DateOf(time), zone)
    IN  [firstDay |-> ToISODate(NewDateLocal(c.y, c.m - 1, 1, zone)),
         lastDay  |-> ToISODate(NewDateLocal(c.y, (c.m - 1) + 1, 0, zone))]

---------------------------------------------------------------------------
(* ExpenseChart.loadExpenseData                                            *)

FALLBACK_COLORS ==
    <<"#8884d8", "#82ca9d", "#ffc658", "#ff7300", "#8dd1e1", "#d084d0", "#87d068">>

\* transaction.categories?.name || 'Uncategorized'
CategoryName(t) ==
    IF t.category = NoCategory \/ Categories[t.category].name = ""
    THEN "Uncategorized" ELSE Categories[t.category].name

\* transaction.categories?.color || '#6b7280'
CategoryColor(t) ==
    IF t.category = NoCategory \/ Categories[t.category].color = ""
    THEN "#6b7280" ELSE Categories[t.category].color

\* the index of the entry of map named name, 0 when it has none
EntryIndex(map, name) ==
    IF \E j \in 1..Len(map) : map[j].name = name
    THEN CHOOSE j \in 1..Len(map) : map[j].name = name
    ELSE 0

\* categoryMap with the amount added where the entry is overwritten
MapPutOverwrite(map, t) ==
    LET j == EntryIndex(map, CategoryName(t))
    IN  IF j # 0
        THEN [map EXCEPT ![j].amount = t.amount]
        ELSE Append(map, [name |-> CategoryName(t), amount |-> t.amount,
                          color |-> CategoryColor(t)])

\* one call of the data.forEach callback on categoryMap, a Map kept in
\* insertion order: add to the entry of the name, or set a new entry
MapPut(map, t) ==
    LET j == EntryIndex(map, CategoryName(t))
    IN  IF j # 0
        THEN [map EXCEPT ![j].amount = @ + t.amount]
        ELSE Append(map, [name |-> CategoryName(t), amount |-> t.amount,
                          color |-> CategoryColor(t)])

RECURSIVE GroupByCategory(_, _, _)
GroupByCategory(data, i, map) ==
    IF i > Len(data) THEN map ELSE GroupByCategory(data, i + 1, MapPut(map, data[i]))

\* Array.from(categoryMap.entries()).map(([name, data], index) => ...)
ToChartEntries(map) ==
    [j \in 1..Len(map) |->
        [name  |-> map[j].name,
         value |-> map[j].amount,
         color |-> IF map[j].color # "" THEN map[j].color
                   ELSE FALLBACK_COLORS[((j - 1) % Len(FALLBACK_COLORS)) + 1]]]

\* x put into a sequence sorted by (a, b) => a.value - b.value
RECURSIVE InsertAscending(_, _)
InsertAscending(sorted, x) ==
    IF sorted = <<>> THEN <<x>>
    ELSE IF Head(sorted).value <= x.value
         THEN <<Head(sorted)>> \o InsertAscending(Tail(sorted), x)
         ELSE <<x>> \o sorted

\* x put into a sequence sorted by (a, b) => b.value - a.value, after every
\* entry that does not compare greater: Array.prototype.sort is stable
RECURSIVE InsertDescending(_, _)
InsertDescending(sorted, x) ==
    IF sorted = <<>> THEN <<x>>
    ELSE IF Head(sorted).value >= x.value
         THEN <<Head(sorted)>> \o InsertDescending(Tail(sorted), x)
         ELSE <<x>> \o sorted

RECURSIVE SortAscendingFrom(_, _, _)
SortAscendingFrom(entries, i, sorted) ==
    IF i > Len(entries) THEN sorted
    ELSE SortAscendingFrom(entries, i + 1, InsertAscending(sorted, entries[i]))

RECURSIVE SortDescendingFrom(_, _, _)
SortDescendingFrom(entries, i, sorted) ==
    IF i > Len(entries) THEN sorted
    ELSE SortDescendingFrom(entries, i + 1, InsertDescending(sorted, entries[i]))

\* .sort((a, b) => a.value - b.value)
SortByValueAscending(entries) == SortAscendingFrom(entries, 1, <<>>)

\* .sort((a, b) => b.value - a.value)
SortByValue(entries) == SortDescendingFrom(entries, 1, <<>>)

\* the rows the query of loadExpenseData returns at `time` in `zone`
ExpenseRows(table, time, zone) ==
    LET window == CurrentMonthWindow(time, zone)
    IN  SelectType(SelectDated(table, window.firstDay, window.lastDay), 1, "expense")

\* chartData of the rows fetched
ChartData(data) == SortByValue(ToChartEntries(GroupByCategory(data, 1, <<>>)))

\* useEffect(() => { loadExpenseData() }, [user]); the component is mounted
\* only for a signed-in user.  fetched: whether the query returned no error.
loadExpenseData(fetched) ==
    /\ IF fetched
       THEN /\ expenseData' = ChartData(ExpenseRows(transactions, now, tz))
            /\ expenseFetch' = "ok"
       ELSE /\ expenseFetch' = "error"
            /\ UNCHANGED expenseData
    /\ expenseLoading' = FALSE
    /\ UNCHANGED <<envVars, dialogVars, callVars, exportVars, importVars, storeVars, monthlyVars, dashboardVars>>

---------------------------------------------------------------------------
(* MonthlyTrends.loadMonthlyData                                           *)

\* for (let i = 5; ...
MonthsBack == 5

MonthNames ==
    <<"Jan", "Feb", "Mar", "Apr", "May", "Jun", "Jul", "Aug", "Sep", "Oct", "Nov", "Dec">>

\* date.toLocaleDateString('en-US', { month: 'short', year: '2-digit' })
MonthLabel(date, zone) ==
    LET c == LocalCivil(date, zone)
    IN  MonthNames[c.m] \o " " \o PadStart(NatToString(c.y % 100), 2)

\* the body of the for loop for one i: the month i months before `time`
MonthBucket(time, zone, i) ==
    LET c        == LocalCivil(DateOf(time), zone)
        date     == NewDateLocal(c.y, (c.m - 1) - i, 1, zone)
        d        == LocalCivil(date, zone)
        firstDay == NewDateLocal(d.y, d.m - 1, 1, zone)
        lastDay  == NewDateLocal(d.y, (d.m - 1) + 1, 0, zone)
    IN  [month    |-> MonthLabel(date, zone),
         firstDay |-> ToISODate(firstDay),
         lastDay  |-> ToISODate(lastDay)]

\* the months of a loop that stops at i = 1
MonthsWithoutCurrent(time, zone) ==
    [k \in 1..MonthsBack |-> MonthBucket(time, zone, MonthsBack - (k - 1))]

\* for (let i = 5; i >= 0; i--) months.push(...)
Months(time, zone) ==
    [k \in 1..(MonthsBack + 1) |-> MonthBucket(time, zone, MonthsBack - (k - 1))]

\* the callback of months.map on one month, its fetch having returned
MonthResult(table, bucket) ==
    LET data     == SelectDated(table, bucket.firstDay, bucket.lastDay)
        income   == SumAmounts(SelectType(data, 1, "income"), 1)
        expenses == SumAmounts(SelectType(data, 1, "expense"), 1)
    IN  [month |-> bucket.month, income |-> income, expenses |-> expenses,
         net |-> income - expenses]

\* fetched: whether every fetch of the Promise.all returned no error
loadMonthlyData(fetched) ==
    /\ IF fetched
       THEN /\ \E months \in {Months(now, tz)} :
                   monthlyData' =
                     [k \in 1..Len(months) |-> MonthResult(transactions, months[k])]
            /\ monthlyFetch' = "ok"
       ELSE /\ monthlyFetch' = "error"
            /\ UNCHANGED monthlyData
    /\ monthlyLoading' = FALSE
    /\ UNCHANGED <<envVars, dialogVars, callVars, exportVars, importVars, storeVars, expenseVars, dashboardVars>>

---------------------------------------------------------------------------
(* Dashboard.loadDashboardData                                             *)

RECURSIVE SumActiveBalances(_, _)
SumActiveBalances(table, i) ==
    IF i > Len(table) THEN 0
    ELSE (IF table[i].is_active THEN table[i].balance ELSE 0) + SumActiveBalances(table, i + 1)

NoStats ==
    [totalBalance |-> 0, monthlyIncome |-> 0, monthlyExpenses |-> 0, transactionCount |-> 0]

\* A call of loadDashboardData, from its fetches on.  Neither fetch's error
\* is read: a fetch that fails leaves its data null, and `?.` and `|| 0`
\* turn null into zeros.
loadDashboardData(accountsFetched, transactionsFetched) ==
    /\ statsLoads > 0
    /\ statsLoads' = statsLoads - 1
    /\ \E window \in { CurrentMonthWindow(now, tz) } :
       \E data \in { SelectDated(transactions, window.firstDay, window.lastDay) } :
          stats' =
            [totalBalance     |-> IF accountsFetched THEN SumActiveBalances(accounts, 1) ELSE 0,
             monthlyIncome    |-> IF transactionsFetched
                                  THEN SumAmounts(SelectType(data, 1, "income"), 1) ELSE 0,
             monthlyExpenses  |-> IF transactionsFetched
                                  THEN SumAmounts(SelectType(data, 1, "expense"), 1) ELSE 0,
             transactionCount |-> IF transactionsFetched THEN Len(data) ELSE 0]
    /\ statsFetch' = IF accountsFetched /\ transactionsFetched THEN "ok" ELSE "error"
    /\ loading' = FALSE
    /\ UNCHANGED <<envVars, dialogVars, callVars, exportVars, importVars, storeVars, expenseVars, monthlyVars>>

\* The same call step by step, for calls that overlap.  It starts (the
\* effect on user, or onSuccess / onImportComplete of a child) by sending
\* its accounts query.
loadDashboardDataStart ==
    /\ statsLoads > 0
    /\ Len(calls) < MaxCalls
    /\ statsLoads' = statsLoads - 1
    /\ calls' = Append(calls, [phase |-> "accounts", stats |-> NoStats, ok |-> TRUE])
    /\ UNCHANGED <<envVars, dialogVars, exportVars, importVars, storeVars, expenseVars,
                    monthlyVars, stats, loading, statsFetch>>

\* the server runs the pending query of call c on the tables as they are.
\* fetched: the query returns data.
queryExecuted(c, fetched) ==
    /\ c \in 1..Len(calls)
    /\ \/ /\ calls[c].phase = "accounts"
          /\ calls' = [calls EXCEPT
                          ![c].phase = "accountsRead",
                          ![c].ok = fetched,
                          ![c].stats.totalBalance =
                              IF fetched THEN SumActiveBalances(accounts, 1) ELSE 0]
       \/ /\ calls[c].phase = "transactions"
          /\ \E window \in { CurrentMonthWindow(now, tz) } :
             \E data \in { SelectDated(transactions, window.firstDay, window.lastDay) } :
                calls' = [calls EXCEPT
                            ![c].phase = "transactionsRead",
                            ![c].ok = @ /\ fetched,
                            ![c].stats.monthlyIncome =
                                IF fetched THEN SumAmounts(SelectType(data, 1, "income"), 1)
                                ELSE 0,
                            ![c].stats.monthlyExpenses =
                                IF fetched THEN SumAmounts(SelectType(data, 1, "expense"), 1)
                                ELSE 0,
                            ![c].stats.transactionCount = IF fetched THEN Len(data) ELSE 0]
    /\ UNCHANGED <<envVars, dialogVars, exportVars, importVars, storeVars, expenseVars,
                    monthlyVars, dashboardVars>>

\* the response of the pending query of call c arrives: after the accounts
\* the call sends its transactions query, after the transactions it calls
\* setStats and ends in its finally
queryReturned(c) ==
    /\ c \in 1..Len(calls)
    /\ \/ /\ calls[c].phase = "accountsRead"
          /\ calls' = [calls EXCEPT ![c].phase = "transactions"]
          /\ UNCHANGED <<stats, loading, statsFetch>>
       \/ /\ calls[c].phase = "transactionsRead"
          /\ calls' = [calls EXCEPT ![c].phase = "done"]
          /\ stats' = calls[c].stats
          /\ statsFetch' = IF calls[c].ok THEN "ok" ELSE "error"
          /\ loading' = FALSE
    /\ UNCHANGED <<envVars, dialogVars, exportVars, importVars, storeVars, expenseVars,
                    monthlyVars, statsLoads>>

---------------------------------------------------------------------------
(* The inputs of the reporting views                                       *)

\* 2024-05-15 12:00, 2024-05-31 22:00 and 2024-01-10 12:00, UTC
Times ==
    { DaysFromCivil(2024, 5, 15) * MinutesPerDay + 12 * 60,
      DaysFromCivil(2024, 5, 31) * MinutesPerDay + 22 * 60,
      DaysFromCivil(2024, 1, 10) * MinutesPerDay + 12 * 60 }

\* expenses on the days around the ends of May 2024, in each category and
\* in none, and an income on its last day
StoredTransactions ==
    { [date |-> DateOfText("2024-04-30"), type |-> "expense", amount |-> 100,
       category |-> NoCategory, account |-> "a1", description |-> "Rent", notes |-> NoNotes,
       user |-> User],
      [date |-> DateOfText("2024-05-01"), type |-> "expense", amount |-> 100,
       category |-> "c1", account |-> "a2", description |-> "Coffee", notes |-> NoNotes,
       user |-> User],
      [date |-> DateOfText("2024-05-01"), type |-> "expense", amount |-> 100,
       category |-> "c2", account |-> "a1", description |-> "Bus", notes |-> NoNotes,
       user |-> User],
      [date |-> DateOfText("2024-05-31"), type |-> "expense", amount |-> 200,
       category |-> "c2", account |-> "a1", description |-> "Train", notes |-> NoNotes,
       user |-> User],
      [date |-> DateOfText("2024-05-01"), type |-> "expense", amount |-> 100,
       category |-> "c3", account |-> "a1", description |-> "Tea", notes |-> NoNotes,
       user |-> User],
      [date |-> DateOfText("2024-05-31"), type |-> "income", amount |-> 100,
       category |-> NoCategory, account |-> "a1", description |-> "Salary", notes |-> NoNotes,
       user |-> User],
      [date |-> DateOfText("2024-06-01"), type |-> "expense", amount |-> 100,
       category |-> NoCategory, account |-> "a1", description |-> "Rent", notes |-> NoNotes,
       user |-> User] }

TransactionTables == UNION { [1..n -> StoredTransactions] : n \in 0..MaxTransactions }

\* the accounts table: an active account and a closed one
StoredAccounts ==
    << [id |-> "a1", balance |-> 1000, is_active |-> TRUE],
       [id |-> "a2", balance |-> 500, is_active |-> FALSE] >>

---------------------------------------------------------------------------
(* BankStatementImport.importTransactions                                  *)

\* a JavaScript number as the DECIMAL(15,2) the amount column holds.  Every
\* amount of the model's statements is a whole number; the column would
\* round any other to the cent.
DecimalOf(x) == CASE x.e = 0 -> x.m

\* the rows to insert without the note of their provenance
TransactionsToInsertUntagged(data, accountId) ==
    [k \in 1..Len(data) |->
        [date        |-> DateOfText(data[k].date),
         type        |-> data[k].type,
         amount      |-> DecimalOf(data[k].amount),
         category    |-> NoCategory,
         account     |-> accountId,
         description |-> data[k].description,
         notes       |-> NoNotes,
         user        |-> User]]

\* parsedData.map(transaction => ({ user_id, account_id, amount, type,
\* description, date, notes })), as the rows the insert adds; category_id
\* is not given and defaults to null
TransactionsToInsert(data, accountId) ==
    [k \in 1..Len(data) |->
        [date        |-> DateOfText(data[k].date),
         type        |-> data[k].type,
         amount      |-> DecimalOf(data[k].amount),
         category    |-> NoCategory,
         account     |-> accountId,
         description |-> data[k].description,
         notes       |-> "Imported from bank statement",
         user        |-> User]]

\* the toast of a catch that reports the failure as one of parsing
ImportFailureAsParseFailure(message) ==
    [title |-> "Error parsing file", description |-> message]

\* the toast of the catch of importTransactions
ImportFailure(message) == [title |-> "Import failed", description |-> message]

\* the Import button (shown when parsedData is not empty, disabled while
\* importing), up to the await of the accounts query
importTransactions ==
    /\ parsedData # <<>>
    /\ ~importing
    /\ Len(transactions) + Len(parsedData) <= MaxTransactions
    /\ importing' = TRUE
    /\ inserting' = TRUE
    /\ UNCHANGED <<envVars, dialogVars, callVars, exportVars, file, parsedData, reading, toast, pushedFrom, parseResult,
                    storeVars, expenseVars, monthlyVars, dashboardVars>>

\* the rest of importTransactions with the clean-up after the try block:
\* parsedData and the file are cleared and onImportComplete is called
\* however the import ended
importSettledClearingAlways(accountsFetched, inserted) ==
    /\ inserting
    /\ IF ~accountsFetched \/ accounts = <<>>
       THEN /\ toast' = ImportFailure("No account found. Please create an account first.")
            /\ UNCHANGED transactions
       ELSE \E a \in 1..Len(accounts) :
               IF inserted
               THEN /\ transactions' =
                         transactions \o TransactionsToInsert(parsedData, accounts[a].id)
                    /\ toast' = [title |-> "Import successful", description |-> ""]
               ELSE /\ toast' = ImportFailure("Failed to import transactions")
                    /\ UNCHANGED transactions
    /\ parsedData' = <<>>
    /\ file' = NoFile
    /\ statsLoads' = statsLoads + 1
    /\ importing' = FALSE
    /\ inserting' = FALSE
    /\ UNCHANGED <<envVars, dialogVars, callVars, exportVars, reading, pushedFrom, parseResult,
                    accounts, expenseVars, monthlyVars, stats, loading, statsFetch>>

\* the rest of importTransactions.  accountsFetched: the accounts query
\* returned data; inserted: the insert returned no error.  The query has
\* limit(1) and no order, so the row it returns is any of the user's.
importSettled(accountsFetched, inserted) ==
    /\ inserting
    /\ IF ~accountsFetched \/ accounts = <<>>
       THEN /\ toast' = ImportFailure("No account found. Please create an account first.")
            /\ UNCHANGED <<file, parsedData, transactions, statsLoads>>
       ELSE \E a \in 1..Len(accounts) :
               IF inserted
               THEN /\ transactions' =
                         transactions \o TransactionsToInsert(parsedData, accounts[a].id)
                    /\ toast' = [title |-> "Import successful", description |-> ""]
                    /\ parsedData' = <<>>
                    /\ file' = NoFile
                    /\ statsLoads' = statsLoads + 1
               ELSE /\ toast' = ImportFailure("Failed to import transactions")
                    /\ UNCHANGED <<file, parsedData, transactions, statsLoads>>
    /\ importing' = FALSE
    /\ inserting' = FALSE
    /\ UNCHANGED <<envVars, dialogVars, callVars, exportVars, reading, pushedFrom, parseResult, accounts, expenseVars,
                    monthlyVars, stats, loading, statsFetch>>

---------------------------------------------------------------------------
(* AddTransactionDialog                                                    *)

\* the initial value of formData, and the value handleSubmit resets it to
\* (its date and its notes are not modelled: the added row is dated as the
\* input of handleSubmit says and has no notes)
NewFormData == [type |-> "expense", amount |-> "", accountId |-> "", categoryId |-> ""]

\* .from('accounts').eq('is_active', true).order('name'): the ids of the
\* active accounts i.. of the table (the accounts of the model are named as
\* their ids)
RECURSIVE SelectActiveIds(_, _)
SelectActiveIds(table, i) ==
    IF i > Len(table) THEN <<>>
    ELSE (IF table[i].is_active THEN <<table[i].id>> ELSE <<>>)
            \o SelectActiveIds(table, i + 1)

\* .from('categories').eq('is_active', true).order('name'): the ids of the
\* categories, by name
CategoriesByName == <<"c1", "c3", "c2", "c4">>

\* the amounts typed into the form
FormAmounts == {"100"}

\* useEffect on open: loadAccountsAndCategories, whose two queries each
\* return data or none; a list whose query returned none is left as it was
loadAccountsAndCategories(accountsFetched, categoriesFetched) ==
    /\ dialogAccounts' = IF accountsFetched THEN SelectActiveIds(accounts, 1)
                         ELSE dialogAccounts
    /\ dialogCategories' = IF categoriesFetched THEN CategoriesByName ELSE dialogCategories
    /\ UNCHANGED <<envVars, importVars, storeVars, expenseVars, monthlyVars, dashboardVars,
                    formData, submitting, callVars, exportVars>>

\* a type button that leaves the selected category as it is
setTypeKeepingCategory(type) ==
    /\ formData' = [formData EXCEPT !.type = type]
    /\ UNCHANGED <<envVars, importVars, storeVars, expenseVars, monthlyVars, dashboardVars,
                    dialogAccounts, dialogCategories, submitting, callVars, exportVars>>

\* the Income and Expense buttons:
\* setFormData({ ...formData, type, categoryId: '' })
setType(type) ==
    /\ formData' = [formData EXCEPT !.type = type, !.categoryId = ""]
    /\ UNCHANGED <<envVars, importVars, storeVars, expenseVars, monthlyVars, dashboardVars,
                    dialogAccounts, dialogCategories, submitting, callVars, exportVars>>

\* categories.filter(cat => cat.type === formData.type), as the set of ids
FilteredCategories ==
    { dialogCategories[j] : j \in { h \in 1..Len(dialogCategories) :
                                       Categories[dialogCategories[h]].type = formData.type } }

\* the Category select, which lists filteredCategories
selectCategory(categoryId) ==
    /\ categoryId \in FilteredCategories
    /\ formData' = [formData EXCEPT !.categoryId = categoryId]
    /\ UNCHANGED <<envVars, importVars, storeVars, expenseVars, monthlyVars, dashboardVars,
                    dialogAccounts, dialogCategories, submitting, callVars, exportVars>>

\* the Account select, which lists accounts
selectAccount(accountId) ==
    /\ \E j \in 1..Len(dialogAccounts) : dialogAccounts[j] = accountId
    /\ formData' = [formData EXCEPT !.accountId = accountId]
    /\ UNCHANGED <<envVars, importVars, storeVars, expenseVars, monthlyVars, dashboardVars,
                    dialogAccounts, dialogCategories, submitting, callVars, exportVars>>

\* the Amount input
setAmount(amount) ==
    /\ formData' = [formData EXCEPT !.amount = amount]
    /\ UNCHANGED <<envVars, importVars, storeVars, expenseVars, monthlyVars, dashboardVars,
                    dialogAccounts, dialogCategories, submitting, callVars, exportVars>>

\* the row handleSubmit inserts, dated with the form's default date, the
\* UTC date of now; '' || null is no category
SubmittedRow ==
    [date        |-> now \div MinutesPerDay,
     type        |-> formData.type,
     amount      |-> DecimalOf(ParseFloat(formData.amount)),
     category    |-> IF formData.categoryId = "" THEN NoCategory ELSE formData.categoryId,
     account     |-> formData.accountId,
     description |-> "Added",
     notes       |-> NoNotes,
     user        |-> User]

\* the form's submit (the Amount input is required, the button is disabled
\* while loading), up to the await of the insert
handleSubmit ==
    /\ submitting = <<>>
    /\ formData.amount # ""
    /\ Len(transactions) < MaxTransactions
    /\ submitting' = <<SubmittedRow>>
    /\ UNCHANGED <<envVars, importVars, storeVars, expenseVars, monthlyVars, dashboardVars,
                    formData, dialogAccounts, dialogCategories, callVars, exportVars>>

\* the rest of handleSubmit, taking the amount of an added row from the
\* balance of its account
submitSettledAdjustingBalance(inserted) ==
    /\ submitting # <<>>
    /\ IF inserted /\ submitting[1].account # ""
       THEN /\ transactions' = transactions \o submitting
            /\ accounts' = [j \in 1..Len(accounts) |->
                               IF accounts[j].id = submitting[1].account
                               THEN [accounts[j] EXCEPT !.balance = @ - submitting[1].amount]
                               ELSE accounts[j]]
            /\ toast' = [title |-> "Success!", description |-> "Transaction added successfully."]
            /\ formData' = NewFormData
            /\ statsLoads' = statsLoads + 1
       ELSE /\ toast' = [title |-> "Error", description |-> ""]
            /\ UNCHANGED <<transactions, accounts, formData, statsLoads>>
    /\ submitting' = <<>>
    /\ UNCHANGED <<envVars, file, importing, parsedData, reading, inserting, pushedFrom,
                    parseResult, expenseVars, monthlyVars, stats, loading,
                    statsFetch, dialogAccounts, dialogCategories, callVars, exportVars>>

\* the rest of handleSubmit.  inserted: the insert returned no error; a
\* row without an account violates account_id UUID NOT NULL.  On success
\* the form is reset and onSuccess (loadDashboardData) is called.
submitSettled(inserted) ==
    /\ submitting # <<>>
    /\ IF inserted /\ submitting[1].account # ""
       THEN /\ transactions' = transactions \o submitting
            /\ toast' = [title |-> "Success!", description |-> "Transaction added successfully."]
            /\ formData' = NewFormData
            /\ statsLoads' = statsLoads + 1
       ELSE /\ toast' = [title |-> "Error", description |-> ""]
            /\ UNCHANGED <<transactions, formData, statsLoads>>
    /\ submitting' = <<>>
    /\ UNCHANGED <<envVars, file, importing, parsedData, reading, inserting, pushedFrom,
                    parseResult, accounts, expenseVars, monthlyVars, stats, loading,
                    statsFetch, dialogAccounts, dialogCategories, callVars, exportVars>>

AddTransactionNext ==
    \/ \E accountsFetched, categoriesFetched \in BOOLEAN :
           loadAccountsAndCategories(accountsFetched, categoriesFetched)
    \/ \E type \in {"income", "expense"} : setType(type)
    \/ \E categoryId \in DOMAIN Categories : selectCategory(categoryId)
    \/ \E accountId \in {"a1", "a2"} : selectAccount(accountId)
    \/ \E amount \in FormAmounts : setAmount(amount)
    \/ handleSubmit
    \/ \E inserted \in BOOLEAN : submitSettled(inserted)

---------------------------------------------------------------------------
(* EditAccountDialog                                                       *)

\* onSubmit of the dialog opened on the account at i, with the balance and
\* is_active of its form (the name and the type of an account are not
\* modelled).  updated: the update returned no error.
onSubmit(i, balance, is_active, updated) ==
    /\ i \in 1..Len(accounts)
    /\ IF updated
       THEN /\ accounts' = [accounts EXCEPT ![i].balance = DecimalOf(ParseFloat(balance)),
                                            ![i].is_active = is_active]
            /\ toast' = [title |-> "Account updated successfully!", description |-> ""]
       ELSE /\ toast' = [title |-> "Failed to update account", description |-> ""]
            /\ UNCHANGED accounts
    /\ UNCHANGED <<envVars, dialogVars, callVars, exportVars, file, importing, parsedData,
                    reading, inserting, pushedFrom, parseResult, transactions, expenseVars,
                    monthlyVars, dashboardVars>>

---------------------------------------------------------------------------
(* ExcelExport.exportTransactions                                          *)

\* format(date, 'dd/MM/yyyy') of date-fns: the LOCAL calendar date
FormatDate(date, zone) ==
    LET c == LocalCivil(date, zone)
    IN  PadStart(NatToString(c.d), 2) \o "/" \o PadStart(NatToString(c.m), 2)
            \o "/" \o PadStart(NatToString(c.y), 4)

\* .order('date', { ascending: false }): the rows from the latest date to
\* the earliest, rows of one date in the order of the table
RECURSIVE OrderByDateDescending(_)
OrderByDateDescending(table) ==
    IF table = <<>> THEN <<>>
    ELSE LET rest == OrderByDateDescending(Tail(table))
             n    == Cardinality({ j \in 1..Len(rest) : rest[j].date > Head(table).date })
         IN  SubSeq(rest, 1, n) \o <<Head(table)>> \o SubSeq(rest, n + 1, Len(rest))

\* exportData: a line item for each fetched row.  new Date(transaction.date)
\* is the UTC midnight of the DATE, which format() writes as a local date.
\* (The columns Account Type and Created Date are not modelled, and an
\* account is named as its id.)
ExportData(rows, zone) ==
    [k \in 1..Len(rows) |->
        ("Date" :> Str(FormatDate(DateOf(rows[k].date * MinutesPerDay), zone)))
        @@ ("Description" :> Str(rows[k].description))
        @@ ("Category" :> Str(CategoryName(rows[k])))
        @@ ("Account" :> Str(rows[k].account))
        @@ ("Type" :> Str(IF rows[k].type = "income" THEN "Income" ELSE "Expense"))
        @@ ("Amount (₹)" :> Number(rows[k].amount))
        @@ ("Notes" :> Str(rows[k].notes))]

\* a summary that counts the expenses among the income
SummaryDataOfAllRows(rows, time, zone) ==
    LET totalIncome   == SumAmounts(rows, 1)
        totalExpenses == SumAmounts(SelectType(rows, 1, "expense"), 1)
    IN  << [Metric |-> "Total Income", Amount |-> Number(totalIncome)],
           [Metric |-> "Total Expenses", Amount |-> Number(totalExpenses)],
           [Metric |-> "Net Balance", Amount |-> Number(totalIncome - totalExpenses)],
           [Metric |-> "Total Transactions", Amount |-> Number(Len(rows))],
           [Metric |-> "Export Date", Amount |-> Str(FormatDate(DateOf(time), zone))] >>

\* summaryData (Amount is its column 'Amount (₹)'; the time of day of the
\* export date is not modelled)
SummaryData(rows, time, zone) ==
    LET totalIncome   == SumAmounts(SelectType(rows, 1, "income"), 1)
        totalExpenses == SumAmounts(SelectType(rows, 1, "expense"), 1)
    IN  << [Metric |-> "Total Income", Amount |-> Number(totalIncome)],
           [Metric |-> "Total Expenses", Amount |-> Number(totalExpenses)],
           [Metric |-> "Net Balance", Amount |-> Number(totalIncome - totalExpenses)],
           [Metric |-> "Total Transactions", Amount |-> Number(Len(rows))],
           [Metric |-> "Export Date", Amount |-> Str(FormatDate(DateOf(time), zone))] >>

\* the Export Transactions button.  fetched: the query returned no error.
\* XLSX.writeFile writes the sheets Transactions and Summary.
exportTransactions(fetched) ==
    /\ IF ~fetched
       THEN /\ toast' = [title |-> "Export failed",
                         description |-> "Failed to export transactions"]
            /\ UNCHANGED workbook
       ELSE IF transactions = <<>>
       THEN /\ toast' = [title |-> "No data to export",
                         description |-> "You don't have any transactions to export"]
            /\ UNCHANGED workbook
       ELSE \E rows \in {OrderByDateDescending(transactions)} :
               /\ workbook' = <<[Transactions |-> ExportData(rows, tz),
                                 Summary |-> SummaryData(rows, now, tz)]>>
               /\ toast' = [title |-> "Export successful", description |-> ""]
    /\ UNCHANGED <<envVars, dialogVars, callVars, file, importing, parsedData, reading,
                    inserting, pushedFrom, parseResult, storeVars, expenseVars, monthlyVars,
                    dashboardVars>>

---------------------------------------------------------------------------
(* Specifications                                                          *)

\* BankStatementImport, on any statement in any time zone
ImportInit ==
    /\ tz \in TimeZones
    /\ statement \in RowSeqs
    /\ now \in {DaysFromCivil(2024, 5, 15) * MinutesPerDay}
    /\ file = NoFile
    /\ importing = FALSE
    /\ parsedData = <<>>
    /\ reading = NoFile
    /\ inserting = FALSE
    /\ toast = NoToast
    /\ pushedFrom = <<>>
    /\ parseResult = "none"
    /\ transactions = <<>>
    /\ accounts = StoredAccounts
    /\ expenseData = <<>>
    /\ expenseLoading = TRUE
    /\ expenseFetch = "none"
    /\ monthlyData = <<>>
    /\ monthlyLoading = TRUE
    /\ monthlyFetch = "none"
    /\ stats = NoStats
    /\ loading = TRUE
    /\ statsFetch = "none"
    /\ statsLoads = 1
    /\ formData = NewFormData
    /\ dialogAccounts = <<>>
    /\ dialogCategories = <<>>
    /\ submitting = <<>>
    /\ calls = <<>>
    /\ workbook = <<>>

SpecImport == ImportInit /\ [][ImportNext]_vars

\* the statements imported into the store
StoredRows ==
    { [Date |-> Str("01/05/2024"), Description |-> Str("Coffee"), Debit |-> Str("150")],
      [date |-> Str("2024-05-02"), description |-> Str("Salary"), Credit |-> Str("50000")],
      [Date |-> Str("05/31/2024"), Description |-> Str("Rent"), Amount |-> Number(-50)] }

StoredStatements == UNION { [1..n -> StoredRows] : n \in 0..MaxRows }

\* BankStatementImport on a Dashboard, with the store, for a user with or
\* without accounts; the fetches of the Dashboard do not fail here
ImportStoreInit ==
    /\ tz \in TimeZones
    /\ statement \in StoredStatements
    /\ now \in {DaysFromCivil(2024, 5, 15) * MinutesPerDay}
    /\ file = NoFile
    /\ importing = FALSE
    /\ parsedData = <<>>
    /\ reading = NoFile
    /\ inserting = FALSE
    /\ toast = NoToast
    /\ pushedFrom = <<>>
    /\ parseResult = "none"
    /\ transactions = <<>>
    /\ accounts \in {<<>>, StoredAccounts}
    /\ expenseData = <<>>
    /\ expenseLoading = TRUE
    /\ expenseFetch = "none"
    /\ monthlyData = <<>>
    /\ monthlyLoading = TRUE
    /\ monthlyFetch = "none"
    /\ stats = NoStats
    /\ loading = TRUE
    /\ statsFetch = "none"
    /\ statsLoads = 1
    /\ formData = NewFormData
    /\ dialogAccounts = <<>>
    /\ dialogCategories = <<>>
    /\ submitting = <<>>
    /\ calls = <<>>
    /\ workbook = <<>>

ImportStoreNext ==
    \/ ImportNext
    \/ importTransactions
    \/ \E accountsFetched, inserted \in BOOLEAN : importSettled(accountsFetched, inserted)
    \/ loadDashboardData(TRUE, TRUE)

SpecImportStore == ImportStoreInit /\ [][ImportStoreNext]_vars

\* BankStatementImport with the store, where the read of a file can fail.
\* The event loop delivers the event of a pending read and settles a
\* pending query: these steps are taken once they can be.
ImportFairNext == ImportStoreNext \/ readerOnerror

SpecImportFair ==
    /\ ImportStoreInit
    /\ [][ImportFairNext]_vars
    /\ WF_vars(readerOnerror \/ readerOnload)
    /\ WF_vars(\E accountsFetched, inserted \in BOOLEAN :
                  importSettled(accountsFetched, inserted))

\* AddTransactionDialog on a Dashboard, with the store (nothing the dialog
\* computes depends on the time zone)
AddTransactionInit ==
    /\ tz \in {"UTC"}
    /\ statement = <<>>
    /\ now \in {DaysFromCivil(2024, 5, 15) * MinutesPerDay}
    /\ file = NoFile
    /\ importing = FALSE
    /\ parsedData = <<>>
    /\ reading = NoFile
    /\ inserting = FALSE
    /\ toast = NoToast
    /\ pushedFrom = <<>>
    /\ parseResult = "none"
    /\ transactions = <<>>
    /\ accounts = StoredAccounts
    /\ expenseData = <<>>
    /\ expenseLoading = TRUE
    /\ expenseFetch = "none"
    /\ monthlyData = <<>>
    /\ monthlyLoading = TRUE
    /\ monthlyFetch = "none"
    /\ stats = NoStats
    /\ loading = TRUE
    /\ statsFetch = "none"
    /\ statsLoads = 1
    /\ formData = NewFormData
    /\ dialogAccounts = <<>>
    /\ dialogCategories = <<>>
    /\ submitting = <<>>
    /\ calls = <<>>
    /\ workbook = <<>>

SpecAddTransaction == AddTransactionInit /\ [][AddTransactionNext]_vars

\* the writers of the store on one Dashboard: the import of a statement of
\* one row, the add-transaction form and the edit of the balance of an
\* account (its Active switch left as the dialog opens it)
LedgerInit ==
    /\ tz \in {"UTC"}
    /\ statement \in {<<[Date |-> Str("01/05/2024"), Description |-> Str("Coffee"),
                           Debit |-> Str("150")]>>}
    /\ now \in {DaysFromCivil(2024, 5, 15) * MinutesPerDay}
    /\ file = NoFile
    /\ importing = FALSE
    /\ parsedData = <<>>
    /\ reading = NoFile
    /\ inserting = FALSE
    /\ toast = NoToast
    /\ pushedFrom = <<>>
    /\ parseResult = "none"
    /\ transactions = <<>>
    /\ accounts = StoredAccounts
    /\ expenseData = <<>>
    /\ expenseLoading = TRUE
    /\ expenseFetch = "none"
    /\ monthlyData = <<>>
    /\ monthlyLoading = TRUE
    /\ monthlyFetch = "none"
    /\ stats = NoStats
    /\ loading = TRUE
    /\ statsFetch = "none"
    /\ statsLoads = 1
    /\ formData = NewFormData
    /\ dialogAccounts = <<>>
    /\ dialogCategories = <<>>
    /\ submitting = <<>>
    /\ calls = <<>>
    /\ workbook = <<>>

LedgerNext ==
    \/ handleFileChange(StatementFile)
    \/ parseFile
    \/ readerOnload
    \/ importTransactions
    \/ \E accountsFetched, inserted \in BOOLEAN : importSettled(accountsFetched, inserted)
    \/ loadAccountsAndCategories(TRUE, TRUE)
    \/ \E accountId \in {"a1", "a2"} : selectAccount(accountId)
    \/ \E amount \in FormAmounts : setAmount(amount)
    \/ handleSubmit
    \/ \E inserted \in BOOLEAN : submitSettled(inserted)
    \/ \E i \in 1..2, updated \in BOOLEAN : onSubmit(i, "250", accounts[i].is_active, updated)

SpecLedger == LedgerInit /\ [][LedgerNext]_vars

\* the Dashboard with its AddTransactionDialog: the calls of
\* loadDashboardData, of the effect and of each onSuccess, step by step
DashboardCallsNext ==
    \/ loadDashboardDataStart
    \/ \E c \in 1..MaxCalls, fetched \in BOOLEAN : queryExecuted(c, fetched)
    \/ \E c \in 1..MaxCalls : queryReturned(c)
    \/ loadAccountsAndCategories(TRUE, TRUE)
    \/ \E accountId \in {"a1", "a2"} : selectAccount(accountId)
    \/ \E amount \in FormAmounts : setAmount(amount)
    \/ handleSubmit
    \/ \E inserted \in BOOLEAN : submitSettled(inserted)

SpecDashboardCalls == AddTransactionInit /\ [][DashboardCallsNext]_vars

\* BankStatementImport with the store, for a user who has two statements
TwoFilesNext == ImportStoreNext \/ handleFileChange(OtherFile)

SpecTwoFiles == LedgerInit /\ [][TwoFilesNext]_vars

\* ExcelExport and BankStatementImport on one Dashboard, on any stored
\* transactions in any zone: the export, and the import of what it wrote
ExportInit ==
    /\ tz \in TimeZones
    /\ statement = <<>>
    /\ now \in {DaysFromCivil(2024, 5, 15) * MinutesPerDay + 12 * 60}
    /\ file = NoFile
    /\ importing = FALSE
    /\ parsedData = <<>>
    /\ reading = NoFile
    /\ inserting = FALSE
    /\ toast = NoToast
    /\ pushedFrom = <<>>
    /\ parseResult = "none"
    /\ transactions \in TransactionTables
    /\ accounts = StoredAccounts
    /\ expenseData = <<>>
    /\ expenseLoading = TRUE
    /\ expenseFetch = "none"
    /\ monthlyData = <<>>
    /\ monthlyLoading = TRUE
    /\ monthlyFetch = "none"
    /\ stats = NoStats
    /\ loading = TRUE
    /\ statsFetch = "none"
    /\ statsLoads = 1
    /\ formData = NewFormData
    /\ dialogAccounts = <<>>
    /\ dialogCategories = <<>>
    /\ submitting = <<>>
    /\ calls = <<>>
    /\ workbook = <<>>

ExportNext ==
    \/ \E fetched \in BOOLEAN : exportTransactions(fetched)
    \/ (workbook # <<>> /\ handleFileChange(ExportedFile(now, tz)))
    \/ parseFile
    \/ readerOnload

SpecExport == ExportInit /\ [][ExportNext]_vars

\* the reporting views, on any stored transactions at any time in any zone
ChartsInit ==
    /\ tz \in TimeZones
    /\ statement = <<>>
    /\ now \in Times
    /\ file = NoFile
    /\ importing = FALSE
    /\ parsedData = <<>>
    /\ reading = NoFile
    /\ inserting = FALSE
    /\ toast = NoToast
    /\ pushedFrom = <<>>
    /\ parseResult = "none"
    /\ transactions \in TransactionTables
    /\ accounts = StoredAccounts
    /\ expenseData = <<>>
    /\ expenseLoading = TRUE
    /\ expenseFetch = "none"
    /\ monthlyData = <<>>
    /\ monthlyLoading = TRUE
    /\ monthlyFetch = "none"
    /\ stats = NoStats
    /\ loading = TRUE
    /\ statsFetch = "none"
    /\ statsLoads = 1
    /\ formData = NewFormData
    /\ dialogAccounts = <<>>
    /\ dialogCategories = <<>>
    /\ submitting = <<>>
    /\ calls = <<>>
    /\ workbook = <<>>

\* ExpenseChart
ExpenseChartNext == \E fetched \in BOOLEAN : loadExpenseData(fetched)

SpecExpenseChart == ChartsInit /\ [][ExpenseChartNext]_vars

\* Dashboard
DashboardNext ==
    \E accountsFetched, transactionsFetched \in BOOLEAN :
        loadDashboardData(accountsFetched, transactionsFetched)

SpecDashboard == ChartsInit /\ [][DashboardNext]_vars

\* MonthlyTrends
MonthlyTrendsNext == \E fetched \in BOOLEAN : loadMonthlyData(fetched)

SpecMonthlyTrends == ChartsInit /\ [][MonthlyTrendsNext]_vars

\* expenses on the days around the end of March 2024
BoundaryTransactions ==
    { [date |-> DateOfText(day), type |-> "expense", amount |-> 100, category |-> NoCategory,
       account |-> "a1", description |-> "Rent", notes |-> NoNotes, user |-> User] :
         day \in {"2024-03-30", "2024-03-31", "2024-04-01"} }

\* MonthlyTrends at any time in any zone, one that observes summer time
\* among them
MonthBucketsInit ==
    /\ tz \in TimeZones \cup DaylightZones
    /\ statement = <<>>
    /\ now \in Times
    /\ file = NoFile
    /\ importing = FALSE
    /\ parsedData = <<>>
    /\ reading = NoFile
    /\ inserting = FALSE
    /\ toast = NoToast
    /\ pushedFrom = <<>>
    /\ parseResult = "none"
    /\ transactions \in UNION { [1..n -> BoundaryTransactions] : n \in 0..MaxTransactions }
    /\ accounts = StoredAccounts
    /\ expenseData = <<>>
    /\ expenseLoading = TRUE
    /\ expenseFetch = "none"
    /\ monthlyData = <<>>
    /\ monthlyLoading = TRUE
    /\ monthlyFetch = "none"
    /\ stats = NoStats
    /\ loading = TRUE
    /\ statsFetch = "none"
    /\ statsLoads = 1
    /\ formData = NewFormData
    /\ dialogAccounts = <<>>
    /\ dialogCategories = <<>>
    /\ submitting = <<>>
    /\ calls = <<>>
    /\ workbook = <<>>

SpecMonthBuckets == MonthBucketsInit /\ [][MonthlyTrendsNext]_vars

---------------------------------------------------------------------------
(* Claims about the normalization.  After a reader.onload (parseResult is  *)
(* not "none") the rows it decoded are `statement`, pushedFrom[k] is the   *)
(* row that transaction k was pushed from, and, when the promise resolved, *)
(* parsedData holds the transactions.                                      *)

Range(f) == { f[i] : i \in DOMAIN f }

HasColumn(row, keys) == \E i \in DOMAIN keys : keys[i] \in DOMAIN row

\* a row that normalization should emit: date, description, a positive
\* amount from either path
HasPositiveAmount(row) == GreaterThanZero(AmountAndType(row).amount)

\* C1: normalization of any rows completes without failing; a row whose date
\* cell cannot be parsed is dropped and every other valid row is emitted.
C1_BadDateRowIsDroppedOthersEmitted ==
    parseResult # "none" =>
        /\ parseResult = "resolved"
        /\ \A i \in 1..Len(statement) :
              ( /\ HasDateAndDescription(statement[i])
                /\ HasPositiveAmount(statement[i])
                /\ NewDate(DateValue(statement[i]), tz).valid )
              <=> i \in Range(pushedFrom)

\* C2: a row with a generic Amount column is emitted as income if and only
\* if the amount parsed AFTER stripping everything but digits, sign and
\* point is strictly positive.
C2_KindIsSignOfStrippedAmount ==
    parseResult = "resolved" =>
        \A k \in 1..Len(parsedData) :
            LET row == statement[pushedFrom[k]]
            IN  HasColumn(row, AmountKeys) =>
                    ( parsedData[k].type = "income"
                      <=> GreaterThanZero(
                            ParseFloat(StripNonNumeric(CellToString(AmountValue(row))))) )

\* C3: every emitted transaction has amount > 0; a row whose magnitude is not
\* positive after either path (or that has no amount at all) is never pushed.
C3_EmittedAmountIsPositive ==
    /\ \A k \in 1..Len(parsedData) :
          ~parsedData[k].amount.nan /\ parsedData[k].amount.m > 0
    /\ \A i \in 1..Len(statement) :
          ( ~HasColumn(statement[i], AmountKeys)
            /\ ~HasColumn(statement[i], DebitKeys)
            /\ ~HasColumn(statement[i], CreditKeys) ) => i \notin Range(pushedFrom)
    /\ \A i \in Range(pushedFrom) : HasPositiveAmount(statement[i])

\* C3's case: a resolved parse that skipped a row with date, description and
\* an amount of zero, and pushed another row
C3_Witness ==
    /\ parseResult = "resolved"
    /\ Len(parsedData) = 1
    /\ \E i \in 1..Len(statement) :
          /\ HasDateAndDescription(statement[i])
          /\ HasColumn(statement[i], AmountKeys)
          /\ AmountAndType(statement[i]).amount = Num(0, 0)
          /\ i \notin Range(pushedFrom)

RowsWithDateAndDescription ==
    { i \in 1..Len(statement) :
        HasColumn(statement[i], DateKeys) /\ HasColumn(statement[i], DescKeys) }

\* C4: a row whose date column or description column is not among the
\* accepted names is dropped; the output is no longer than the number of
\* rows that have both.
C4_RowsLackingDateOrDescriptionDropped ==
    /\ Range(pushedFrom) \subseteq RowsWithDateAndDescription
    /\ Len(parsedData) <= Cardinality(RowsWithDateAndDescription)

\* C4's case: a resolved parse of two rows, one without a date column but
\* with a positive debit, the other pushed
C4_Witness ==
    /\ parseResult = "resolved"
    /\ Len(statement) = 2
    /\ Len(parsedData) = 1
    /\ \E i \in 1..2 :
          /\ ~HasColumn(statement[i], DateKeys)
          /\ HasColumn(statement[i], DebitKeys)

\* a row with no generic amount column whose debit and credit are both
\* present and positive
BothDebitAndCredit(row) ==
    /\ ~HasColumn(row, AmountKeys)
    /\ HasColumn(row, DebitKeys) /\ HasColumn(row, CreditKeys)
    /\ GreaterThanZero(ParseFloat(CellToString(DebitValue(row))))
    /\ GreaterThanZero(ParseFloat(CellToString(CreditValue(row))))

\* C5: a row without a generic amount whose debit and credit are both present
\* and positive is emitted with amount = debit and kind = expense.
C5_DebitWinsOverCredit ==
    parseResult = "resolved" =>
        /\ \A k \in 1..Len(parsedData) :
              LET row == statement[pushedFrom[k]]
              IN  BothDebitAndCredit(row) =>
                      /\ parsedData[k].amount = ParseFloat(CellToString(DebitValue(row)))
                      /\ parsedData[k].type = "expense"
        /\ \A i \in 1..Len(statement) :
              BothDebitAndCredit(statement[i]) /\ HasDateAndDescription(statement[i])
                  => i \in Range(pushedFrom)

\* C5's case: a resolved parse pushed a row whose debit and credit are both
\* positive
C5_Witness ==
    /\ parseResult = "resolved"
    /\ \E k \in 1..Len(parsedData) : BothDebitAndCredit(statement[pushedFrom[k]])

ScenarioRows ==
    << [Date |-> Str("01/05/2024"), Description |-> Str("Coffee"), Debit |-> Str("150")],
       [date |-> Str("2024-05-02"), description |-> Str("Salary"), Credit |-> Str("50000")] >>

\* C6: the rows {Date: "01/05/2024", Description: "Coffee", Debit: "150"},
\* {date: "2024-05-02", description: "Salary", Credit: "50000"} normalize to
\* 2024-05-01 Coffee 150 expense, 2024-05-02 Salary 50000 income.
C6_ScenarioYieldsFirstOfMay ==
    (statement = ScenarioRows /\ parseResult # "none") =>
        /\ parseResult = "resolved"
        /\ parsedData =
             << [date |-> "2024-05-01", description |-> "Coffee",
                 amount |-> Num(150, 0), type |-> "expense"],
                [date |-> "2024-05-02", description |-> "Salary",
                 amount |-> Num(50000, 0), type |-> "income"] >>

---------------------------------------------------------------------------
(* Claims about the reporting views.  After a load whose fetches returned  *)
(* no error (its ...Fetch is "ok") the component's state holds what the    *)
(* load computed from `transactions` at `now` in zone tz.                  *)

\* the label of entry k of a six-month series that ends with the local month
\* of `now`: months counted as year * 12 + month index
ExpectedMonthLabel(k) ==
    LET c     == LocalCivil(DateOf(now), tz)
        index == (c.y * 12 + (c.m - 1)) - (6 - k)
    IN  MonthNames[(index % 12) + 1] \o " " \o PadStart(NatToString((index \div 12) % 100), 2)

\* no stored transaction is dated within the dates queried for entry k
NoneMatching(k) ==
    \E bucket \in {MonthBucket(now, tz, 6 - k)} :
        \E first \in {DateOfText(bucket.firstDay)}, last \in {DateOfText(bucket.lastDay)} :
            \A i \in 1..Len(transactions) :
                transactions[i].date < first \/ transactions[i].date > last

\* C7: the monthly series has exactly 6 entries, oldest to newest, the last
\* being the current month; net = income - expenses in every entry; a month
\* whose query matches no transaction is present with all three sums zero.
C7_SixMonthsOldestToNewest ==
    monthlyFetch = "ok" =>
        /\ Len(monthlyData) = 6
        /\ \A k \in 1..6 :
              /\ monthlyData[k].month = ExpectedMonthLabel(k)
              /\ monthlyData[k].net = monthlyData[k].income - monthlyData[k].expenses
              /\ NoneMatching(k) =>
                     /\ monthlyData[k].income = 0
                     /\ monthlyData[k].expenses = 0
                     /\ monthlyData[k].net = 0

\* C7's case: a loaded series in which a month without transactions stands,
\* all zero, next to a month with income and expenses
C7_Witness ==
    /\ monthlyFetch = "ok"
    /\ \E k \in 1..Len(monthlyData) :
          NoneMatching(k) /\ monthlyData[k].income = 0 /\ monthlyData[k].expenses = 0
    /\ \E k \in 1..Len(monthlyData) :
          /\ monthlyData[k].income > 0
          /\ monthlyData[k].expenses > monthlyData[k].income
          /\ monthlyData[k].net < 0

\* stored transaction i is an expense dated within the dates the current
\* month's query asks for
IsQueriedExpense(i) ==
    /\ transactions[i].type = "expense"
    /\ transactions[i].date >= DateOfText(CurrentMonthWindow(now, tz).firstDay)
    /\ transactions[i].date <= DateOfText(CurrentMonthWindow(now, tz).lastDay)

\* the sum of the amounts of the queried expenses i..Len(transactions) of
\* the group named name
RECURSIVE GroupTotal(_, _)
GroupTotal(name, i) ==
    IF i > Len(transactions) THEN 0
    ELSE (IF IsQueriedExpense(i) /\ CategoryName(transactions[i]) = name
          THEN transactions[i].amount ELSE 0) + GroupTotal(name, i + 1)

\* C8: with no expense to break down the breakdown is empty, and the total
\* of every group is the sum of the amounts of the window's expenses that
\* belong to the group.
C8_GroupTotalIsSumOfItsExpenses ==
    expenseFetch = "ok" =>
        /\ (\A i \in 1..Len(transactions) : ~IsQueriedExpense(i)) => expenseData = <<>>
        /\ \A j \in 1..Len(expenseData) :
              expenseData[j].value = GroupTotal(expenseData[j].name, 1)

\* C8's case: a breakdown of two groups, one of them summing two expenses
\* of different amounts, loaded next to an income and an expense out of the
\* window that it leaves out
C8_Witness ==
    /\ expenseFetch = "ok"
    /\ Len(expenseData) = 2
    /\ \E j \in 1..2 : expenseData[j].name = "B" /\ expenseData[j].value = 300
    /\ \E j \in 1..2 : expenseData[j].name = "A" /\ expenseData[j].value = 100

\* the first queried expense of the group named name
FirstSeen(name) ==
    CHOOSE i \in 1..Len(transactions) :
        /\ IsQueriedExpense(i) /\ CategoryName(transactions[i]) = name
        /\ \A h \in 1..(i - 1) :
              ~(IsQueriedExpense(h) /\ CategoryName(transactions[h]) = name)

\* the queried expenses, as <<category name, amount>>
QueriedExpenses ==
    LET rows == ExpenseRows(transactions, now, tz)
    IN  [i \in 1..Len(rows) |-> <<CategoryName(rows[i]), rows[i].amount>>]

\* C9: the breakdown is in descending order of total, groups of equal total
\* in the order their first expense was seen; expenses of 100, 200, 200 in
\* categories A, B, B give [B: 400, A: 100].
C9_DescendingTiesFirstSeen ==
    expenseFetch = "ok" =>
        /\ \A j \in 1..(Len(expenseData) - 1) :
              \/ expenseData[j].value > expenseData[j + 1].value
              \/ /\ expenseData[j].value = expenseData[j + 1].value
                 /\ FirstSeen(expenseData[j].name) < FirstSeen(expenseData[j + 1].name)
        /\ QueriedExpenses = << <<"A", 100>>, <<"B", 200>>, <<"B", 200>> >> =>
              /\ Len(expenseData) = 2
              /\ expenseData[1].name = "B" /\ expenseData[1].value = 400
              /\ expenseData[2].name = "A" /\ expenseData[2].value = 100

\* C9's case: the breakdown of 100, 200, 200 in A, B, B
C9_Witness ==
    /\ expenseFetch = "ok"
    /\ QueriedExpenses = << <<"A", 100>>, <<"B", 200>>, <<"B", 200>> >>
    /\ Len(expenseData) = 2
    /\ expenseData[1].name = "B"

\* stored transaction i is dated in the calendar month that `now` is in, in
\* zone tz
InCurrentCalendarMonth(i) ==
    LET c == LocalCivil(DateOf(now), tz)
    IN  /\ CivilFromDays(transactions[i].date).y = c.y
        /\ CivilFromDays(transactions[i].date).m = c.m

\* C10: at every time in every zone the current month's window is the
\* calendar month, first and last day included: the dashboard counts
\* exactly the transactions dated in the current calendar month.
C10_WindowIsCalendarMonth ==
    statsFetch = "ok" =>
        stats.transactionCount =
            Cardinality({ i \in 1..Len(transactions) : InCurrentCalendarMonth(i) })

---------------------------------------------------------------------------
(* Claims about failures                                                   *)

\* C11: a load whose fetch failed is never shown as a result: the view does
\* not leave its loading placeholder to show what an empty table gives, or
\* what it held before.
C11_FailedFetchIsSurfaced ==
    [][ /\ expenseFetch' = "error" =>
              ~( /\ ~expenseLoading'
                 /\ (expenseData' = <<>> \/ expenseData' = expenseData) )
        /\ monthlyFetch' = "error" =>
              ~( /\ ~monthlyLoading'
                 /\ (monthlyData' = <<>> \/ monthlyData' = monthlyData) )
        /\ statsFetch' = "error" =>
              ~( /\ ~loading'
                 /\ (stats' = stats \/ stats'.totalBalance = 0
                        \/ stats'.transactionCount = 0) ) ]_vars


\* C12: when importTransactions finds the user without an account, nothing
\* is inserted, parsedData (and the selected file) stay as they are, and the
\* toast is the import failure "No account found", not the parse failure.
C12_NoAccountRefusesImport ==
    [][ (inserting /\ ~inserting' /\ accounts = <<>>) =>
            /\ transactions' = transactions
            /\ parsedData' = parsedData
            /\ file' = file
            /\ toast'.title = "Import failed"
            /\ toast'.title # "Error parsing file"
            /\ toast'.description = "No account found. Please create an account first."
            /\ statsLoads' = statsLoads ]_vars

\* C12's case: an import refused for a user without accounts, the parsed
\* transactions still waiting
C12_Witness ==
    /\ accounts = <<>>
    /\ ~importing
    /\ parsedData # <<>>
    /\ transactions = <<>>
    /\ toast.title = "Import failed"


\* C13: with a file selected whose name ends in none of .xlsx, .xls, .csv,
\* every step that keeps the selection (parseFile is the only one that then
\* changes anything) shows the failure toast, starts no read of the file,
\* leaves parseExcelFile unrun and parsedData as it was.
C13_UnsupportedFileIsNotParsed ==
    [][ (file = UnsupportedFile /\ file' = file) =>
            /\ toast'.title = "Error parsing file"
            /\ toast'.description =
                 "Unsupported file format. Please upload Excel (.xlsx, .xls) or CSV files."
            /\ reading' = NoFile
            /\ parseResult' = parseResult
            /\ pushedFrom' = pushedFrom
            /\ parsedData' = parsedData
            /\ ~importing' ]_vars

\* C13's case: the failure shown for the selected .pdf
C13_Witness ==
    /\ file = UnsupportedFile
    /\ toast.title = "Error parsing file"
    /\ toast.description =
         "Unsupported file format. Please upload Excel (.xlsx, .xls) or CSV files."
    /\ reading = NoFile
    /\ parsedData = <<>>
    /\ parseResult = "none"
    /\ ~importing


---------------------------------------------------------------------------
(* Further claims about the normalization                                  *)

---------------------------------------------------------------------------
(* Further claims about the reporting views                                *)

\* the account of the id is active
IsActiveAccount(id) ==
    \E j \in 1..Len(accounts) : accounts[j].id = id /\ accounts[j].is_active

\* the sum of the amounts of the stored transactions i.. of the type, dated
\* from first to last, that belong to an active account
RECURSIVE ActiveTotal(_, _, _, _)
ActiveTotal(type, first, last, i) ==
    IF i > Len(transactions) THEN 0
    ELSE (IF /\ transactions[i].type = type
             /\ transactions[i].date >= first /\ transactions[i].date <= last
             /\ IsActiveAccount(transactions[i].account)
          THEN transactions[i].amount ELSE 0) + ActiveTotal(type, first, last, i + 1)

\* C15: no displayed aggregate includes the balance or the transactions of
\* an inactive account: the dashboard's monthly income and expenses are the
\* sums over the queried days of the transactions of active accounts.
C15_InactiveAccountsAreLeftOut ==
    statsFetch = "ok" =>
        \E first \in {DateOfText(CurrentMonthWindow(now, tz).firstDay)},
           last \in {DateOfText(CurrentMonthWindow(now, tz).lastDay)} :
            /\ stats.monthlyIncome = ActiveTotal("income", first, last, 1)
            /\ stats.monthlyExpenses = ActiveTotal("expense", first, last, 1)


---------------------------------------------------------------------------
(* Claims about the columns of a row                                       *)

\* the row without its Debit and Credit columns
WithoutDebitCredit(row) ==
    [key \in DOMAIN row \ (Range(DebitKeys) \cup Range(CreditKeys)) |-> row[key]]

\* C16: the Debit and Credit columns of a row that has an Amount, amount or
\* AMOUNT column never determine what is emitted: the row is emitted exactly
\* when it would be without them, and as the same transaction.
C16_DebitCreditUnusedWithAmountColumn ==
    parseResult = "resolved" =>
        \A i \in 1..Len(statement) :
            HasColumn(statement[i], AmountKeys) =>
                \E r \in {NormalizeRow(WithoutDebitCredit(statement[i]), tz)} :
                    /\ (i \in Range(pushedFrom)) <=> (r.kind = "push")
                    /\ \A k \in 1..Len(pushedFrom) :
                          pushedFrom[k] = i => parsedData[k] = r.tx


\* the value of the first of the keys that the row has
FirstPresent(row, keys) ==
    row[keys[CHOOSE i \in DOMAIN keys :
                /\ keys[i] \in DOMAIN row
                /\ \A h \in 1..(i - 1) : keys[h] \notin DOMAIN row]]

\* C17: the date and the description of an emitted transaction are those of
\* the first candidate key, in probe order, that the row has, whatever the
\* value under that key is.
C17_FirstPresentKeyIsUsed ==
    parseResult = "resolved" =>
        \A k \in 1..Len(parsedData) :
            \E row \in {statement[pushedFrom[k]]} :
                /\ parsedData[k].description = CellToString(FirstPresent(row, DescKeys))
                /\ parsedData[k].date = ToISODate(NewDate(FirstPresent(row, DateKeys), tz))


\* the month, counted as year * 12 + month index, of entry k of a six-month
\* series that ends with the local month of `now`
ExpectedMonthIndex(k) ==
    LET c == LocalCivil(DateOf(now), tz)
    IN  (c.y * 12 + (c.m - 1)) - (6 - k)

\* the sum of the amounts of the stored transactions i.. of the type that
\* are dated in the calendar month of the index
RECURSIVE CalendarMonthTotal(_, _, _)
CalendarMonthTotal(type, index, i) ==
    IF i > Len(transactions) THEN 0
    ELSE (IF /\ transactions[i].type = type
             /\ CivilFromDays(transactions[i].date).y * 12
                  + (CivilFromDays(transactions[i].date).m - 1) = index
          THEN transactions[i].amount ELSE 0) + CalendarMonthTotal(type, index, i + 1)

\* C18: at every time in every zone, the entry labelled with a month sums
\* exactly the transactions dated in that calendar month.
C18_BucketIsItsCalendarMonth ==
    monthlyFetch = "ok" =>
        \A k \in 1..Len(monthlyData) :
            /\ monthlyData[k].month = ExpectedMonthLabel(k)
            /\ monthlyData[k].income = CalendarMonthTotal("income", ExpectedMonthIndex(k), 1)
            /\ monthlyData[k].expenses = CalendarMonthTotal("expense", ExpectedMonthIndex(k), 1)


\* the categories (NoCategory for none) that the queried expenses refer to
QueriedCategories ==
    { transactions[i].category : i \in { h \in 1..Len(transactions) : IsQueriedExpense(h) } }

\* the sum of the amounts of the queried expenses i.. that refer to category
RECURSIVE CategoryTotal(_, _)
CategoryTotal(category, i) ==
    IF i > Len(transactions) THEN 0
    ELSE (IF IsQueriedExpense(i) /\ transactions[i].category = category
          THEN transactions[i].amount ELSE 0) + CategoryTotal(category, i + 1)

\* C19: the groups of the breakdown are the categories the expenses refer
\* to, and "Uncategorized" for those that refer to none: one group for each,
\* under the category's name, summing the expenses of that category only.
C19_GroupsAreCategories ==
    expenseFetch = "ok" =>
        /\ Len(expenseData) = Cardinality(QueriedCategories)
        /\ \A category \in QueriedCategories :
              \E j \in 1..Len(expenseData) :
                  /\ expenseData[j].name =
                       IF category = NoCategory THEN "Uncategorized"
                       ELSE Categories[category].name
                  /\ expenseData[j].value = CategoryTotal(category, 1)


\* the 0-based position at which the group named name entered categoryMap:
\* the number of groups whose first expense came before its own
FirstSeenIndex(name) ==
    Cardinality({ j \in 1..Len(expenseData) :
                    FirstSeen(expenseData[j].name) < FirstSeen(name) })

\* C20: a group has the color stored with its category; a group with no
\* stored color (its expenses refer to no category) has the palette color at
\* its first-seen index modulo the length of the palette.
C20_ColorIsStoredOrPalette ==
    expenseFetch = "ok" =>
        \A j \in 1..Len(expenseData) :
            LET first == transactions[FirstSeen(expenseData[j].name)]
            IN  expenseData[j].color =
                    IF first.category # NoCategory
                    THEN Categories[first.category].color
                    ELSE FALLBACK_COLORS[
                            (FirstSeenIndex(expenseData[j].name) % Len(FALLBACK_COLORS)) + 1]


---------------------------------------------------------------------------
(* Claims about the import into the store and the other writers            *)

\* C21: every record an import inserts has the notes "Imported from bank
\* statement", no category, the id of the importing user and the id of one
\* and the same account of the user; as many records are inserted as there
\* are parsed transactions.
C21_ImportedRecordsAreTagged ==
    [][ transactions' # transactions =>
          /\ Len(transactions') = Len(transactions) + Len(parsedData)
          /\ SubSeq(transactions', 1, Len(transactions)) = transactions
          /\ \E a \in 1..Len(accounts) :
                \A k \in (Len(transactions) + 1)..Len(transactions') :
                    /\ transactions'[k].notes = "Imported from bank statement"
                    /\ transactions'[k].category = NoCategory
                    /\ transactions'[k].user = User
                    /\ transactions'[k].account = accounts[a].id ]_vars

\* an import has inserted two records
C21_Witness ==
    /\ toast.title = "Import successful"
    /\ Len(transactions) = 2
    /\ transactions[1].notes = "Imported from bank statement"
    /\ transactions[2].account = transactions[1].account


\* C22: no transaction added through the form has a category of a kind
\* other than its own, whatever types were toggled and categories selected
\* before its submission; neither has the row of a submission in flight.
C22_CategoryKindIsTransactionKind ==
    \A row \in Range(transactions) \cup Range(submitting) :
        row.category # NoCategory => Categories[row.category].type = row.type

\* an income was added under the income category after the type was
\* switched from the expense the form starts with, and an expense under an
\* expense category
C22_Witness ==
    /\ \E i \in 1..Len(transactions) :
          transactions[i].type = "income" /\ transactions[i].category = "c4"
    /\ \E i \in 1..Len(transactions) :
          transactions[i].type = "expense" /\ transactions[i].category = "c2"


\* C23: a step that adds rows to the transactions, of the form or of an
\* import, leaves the accounts and so every balance as they are; the
\* accounts change in the update of an account only, which adds no
\* transaction.
C23_BalancesChangeOnlyByAccountUpdate ==
    [][ /\ transactions' # transactions => accounts' = accounts
        /\ accounts' # accounts =>
              /\ toast'.title = "Account updated successfully!"
              /\ transactions' = transactions ]_vars

\* a transaction was added through the form and another imported, on the
\* first account, whose balance is still the stored one
C23_Witness ==
    /\ \E i \in 1..Len(transactions) :
          transactions[i].notes = NoNotes /\ transactions[i].account = "a1"
    /\ \E i \in 1..Len(transactions) :
          transactions[i].notes = "Imported from bank statement"
            /\ transactions[i].account = "a1"
    /\ accounts[1].balance = StoredAccounts[1].balance


---------------------------------------------------------------------------
(* Claims about the exported workbook                                      *)

\* the sum of the amounts of the rows of `type` among the rows i.. of the
\* table
RECURSIVE TotalOfType(_, _, _)
TotalOfType(table, type, i) ==
    IF i > Len(table) THEN 0
    ELSE (IF table[i].type = type THEN table[i].amount ELSE 0) + TotalOfType(table, type, i + 1)

\* the amount the summary sheet gives for a metric
SummaryAmount(metric) ==
    LET summary == workbook[1].Summary
    IN  summary[CHOOSE j \in 1..Len(summary) : summary[j].Metric = metric].Amount

\* C24: on the summary sheet of an exported workbook Total Income is the sum
\* of the amounts of the income rows, Total Expenses that of the expense
\* rows, Net Balance their difference and Total Transactions the number of
\* rows of the line-items sheet, which has a row for each transaction.
C24_SummaryAgreesWithLineItems ==
    workbook # <<>> =>
        /\ SummaryAmount("Total Income") = Number(TotalOfType(transactions, "income", 1))
        /\ SummaryAmount("Total Expenses") = Number(TotalOfType(transactions, "expense", 1))
        /\ SummaryAmount("Net Balance") =
              Number(TotalOfType(transactions, "income", 1)
                        - TotalOfType(transactions, "expense", 1))
        /\ SummaryAmount("Total Transactions") = Number(Len(workbook[1].Transactions))
        /\ Len(workbook[1].Transactions) = Len(transactions)

\* a workbook was exported from an income and two expenses
C24_Witness ==
    /\ workbook # <<>>
    /\ toast.title = "Export successful"
    /\ SummaryAmount("Total Income") = Number(100)
    /\ SummaryAmount("Total Expenses") = Number(300)
    /\ SummaryAmount("Total Transactions") = Number(3)


\* C30: parsing the line-items sheet of an exported workbook resolves, and
\* gives for every exported transaction a parsed transaction of the same
\* date, description, amount and kind.
C30_ExportThenImportRoundTrip ==
    (workbook # <<>> /\ file = ExportedFile(now, tz) /\ parseResult # "none") =>
        /\ parseResult = "resolved"
        /\ \A i \in 1..Len(transactions) :
              \E k \in 1..Len(parsedData) :
                  /\ DateOfText(parsedData[k].date) = transactions[i].date
                  /\ parsedData[k].description = transactions[i].description
                  /\ parsedData[k].amount = Num(transactions[i].amount, 0)
                  /\ parsedData[k].type = transactions[i].type


---------------------------------------------------------------------------
(* Claims about the import component's progress and its parsed data        *)

\* C25: whenever importing is true it is false again later, in every
\* behaviour in which pending reads and queries complete, however they end.
C25_ImportingEndsEventually == importing ~> ~importing


\* C26: the step that ends an import clears parsedData and the selected
\* file and calls onImportComplete when it has inserted the rows, and leaves
\* parsedData and the file as they are and calls nothing when it has not;
\* onImportComplete is called in no other step.
C26_ClearedOnlyAfterInsert ==
    [][ /\ (inserting /\ ~inserting') =>
              IF transactions' # transactions
              THEN parsedData' = <<>> /\ file' = NoFile /\ statsLoads' = statsLoads + 1
              ELSE parsedData' = parsedData /\ file' = file /\ statsLoads' = statsLoads
        /\ statsLoads' > statsLoads => transactions' # transactions ]_vars

\* an import whose insert failed: the parsed transactions and the file are
\* still there and nothing was inserted
C26_Witness ==
    /\ toast = ImportFailure("Failed to import transactions")
    /\ ~importing
    /\ parsedData # <<>>
    /\ file = StatementFile
    /\ transactions = <<>>
    /\ statsLoads = 1


\* C27: parsedData, when it is not empty, is what the parse of the selected
\* file gives: no transaction parsed from a file selected before is left to
\* import.
C27_ParsedDataIsOfSelectedFile ==
    parsedData # <<>> =>
        /\ file # NoFile
        /\ parsedData = ParseRows(SheetToJson(file), tz).transactions

\* after the import of one statement the other file was selected and
\* parsed: its transaction is the parsed data
C27_Witness ==
    /\ file = OtherFile
    /\ parsedData # <<>>
    /\ parsedData[1].description = "Books"
    /\ \E i \in 1..Len(transactions) : transactions[i].description = "Coffee"


---------------------------------------------------------------------------
(* Claims about overlapping calls of loadDashboardData                     *)

\* C28: once every call of loadDashboardData that was started has finished
\* (each with the data of both its queries), the stats shown are those
\* computed by the call that started last, in whatever order the responses
\* arrived.
C28_StatsAreOfLastStartedCall ==
    (Len(calls) >= 2 /\ \A c \in 1..Len(calls) : calls[c].phase = "done" /\ calls[c].ok) =>
        stats = calls[Len(calls)].stats


---------------------------------------------------------------------------
(* Claims about the buckets of the monthly series                          *)

\* C29: the six buckets of a loaded series are disjoint and leave no gap:
\* every day from the first day of the first bucket to the last day of the
\* last one lies in exactly one bucket, and so the series counts every
\* transaction of that range once.
C29_BucketsPartitionTheirRange ==
    monthlyFetch = "ok" =>
        \E months \in {Months(now, tz)} :
        \E bounds \in { [k \in 1..Len(months) |->
                           [firstDay |-> DateOfText(months[k].firstDay),
                            lastDay  |-> DateOfText(months[k].lastDay)]] } :
            LET counted[k \in 0..Len(months)] ==
                    IF k = 0 THEN 0
                    ELSE counted[k - 1] + monthlyData[k].income + monthlyData[k].expenses
            IN  /\ \A day \in bounds[1].firstDay..bounds[Len(months)].lastDay :
                      Cardinality({ k \in 1..Len(months) :
                                      bounds[k].firstDay <= day /\ day <= bounds[k].lastDay }) = 1
                /\ counted[Len(months)] =
                      SumAmounts(SelectDated(transactions, months[1].firstDay,
                                             months[Len(months)].lastDay), 1)

===========================================================================
